---- MODULE Spec2Model ----
(***************************************************************************)
(* Model of cml22/crawler-seo.  The crawl engine (src/app.py):             *)
(* normalize_url, is_same_domain, extract_rich_page_data,                  *)
(* extract_internal_links, make_error_page, crawl_bfs, crawl_sitemap,      *)
(* parse_sitemap and the launch block that resolves the sitemap and audits *)
(* what the crawl returned.  The audit (src/seo_checks.py): the 13         *)
(* per-page checks, check_duplicates and run_audit.                        *)
(*                                                                         *)
(* A URL string "scheme://netloc" ++ rest is the record                    *)
(* [scheme, netloc, rest]; rest is the sequence of the characters that     *)
(* follow the authority (empty, or starting with "/", "?" or "#").  Every  *)
(* URL that is fetched has a non-empty netloc; an href written without     *)
(* scheme and host has both empty, and rest holds its characters.          *)
(***************************************************************************)
EXTENDS Integers, Sequences, FiniteSets, TLC

VARIABLES
    mode,          \* "bfs", "sitemap", "norm" (normalize_url alone), "audit" (run_audit alone),
                   \* "launch" (the launch block in sitemap mode)
    start_url,     \* crawl_bfs argument
    urls_in,       \* crawl_sitemap argument, as given by the caller
    max_pages,     \* argument of both crawls
    stop_button,   \* value returned by st.button("Stop"), read once before the loop
    base_netloc,   \* crawl_bfs local
    visited,       \* crawl_bfs local: set of URLs
    queue,         \* crawl_bfs local: deque of <<url, depth>>
    urls,          \* crawl_sitemap local: urls[:max_pages]
    idx,           \* crawl_sitemap loop index (number of entries taken so far)
    raw_pages,     \* local of both crawls: list of page records
    stopped,       \* local of both crawls
    pc,            \* "loop": at the loop test; "fetch": URL taken, request not yet made; "done": returned
    cur,           \* the <<url, depth>> taken by the current iteration
    returned,      \* the value returned by the crawl
    deqLog,        \* history: every <<url, depth>> taken from the queue or the list, in order
    fetchLog,      \* history: every session.get made, [url, depth, resp]
    enqLog,        \* history: every queue.append made, <<url, depth>>, in order
    parent,        \* history: [url, from, fromDepth] for every link enqueued
    nUrl,          \* normalize_url input
    nOnce,         \* normalize_url(nUrl)
    nTwice,        \* normalize_url(normalize_url(nUrl))
    npc,           \* "in", "once", "twice"
    audit_pages,   \* the list run_audit was called with, as the call leaves it
    seo_issues,    \* the list of findings run_audit returned
    apc,           \* "crawl": no audit yet; "call": run_audit about to run; "audited"
    widgets,       \* the sidebar inputs of sitemap mode: [sitemap_source, sitemap_url, sitemap_file]
    sitemap_web,   \* what requests.get gives for each sitemap address
    sitemap_urls,  \* launch block local: the list parse_sitemap returned
    session_state, \* st.session_state: [raw_pages, seo_issues, crawl_running]
    errors,        \* number of st.error messages shown
    lpc            \* launch block: "launch", "resolved", "crawl", "crawled", "end", "crashed"

crawlVars == <<mode, start_url, urls_in, max_pages, stop_button, base_netloc, visited,
               queue, urls, idx, raw_pages, stopped, pc, cur, returned, deqLog,
               fetchLog, enqLog, parent>>
normVars == <<nUrl, nOnce, nTwice, npc>>
auditVars == <<audit_pages, seo_issues, apc>>
launchVars == <<widgets, sitemap_web, sitemap_urls, session_state, errors, lpc>>
vars == <<crawlVars, normVars, auditVars, launchVars>>

(***************************************************************************)
(* Bounds.  max_pages comes from a slider of 10..500 (src/app.py:107 and   *)
(* 116), so it is never below 1; the model scales that range down to       *)
(* MinPages..MaxPages.  MaxUrlLen bounds the inputs of normalize_url.      *)
(* Left out because they hold no state the traversal reads: the progress   *)
(* widgets, the live table and time.sleep(delay_ms / 1000).                *)
(***************************************************************************)
MinPages == 1
MaxPages == 4
MaxUrlLen == 4

(***************************************************************************)
(* Strings as sequences of characters                                      *)
(***************************************************************************)
Chars == {"/", "a", ";", "?", "#"}

\* str.find(c, from): least index >= from holding c, 0 when there is none
\* (indices are 1-based; from >= 1)
Find(s, c, from) ==
    LET hits == {i \in from..Len(s) : s[i] = c}
    IN IF hits = {} THEN 0 ELSE CHOOSE i \in hits : \A j \in hits : i <= j

\* str.rfind(c): greatest index holding c, 0 when there is none
RFind(s, c) ==
    LET hits == {i \in 1..Len(s) : s[i] = c}
    IN IF hits = {} THEN 0 ELSE CHOOSE i \in hits : \A j \in hits : j <= i

\* str.rstrip("/"): every trailing "/" removed
RECURSIVE RStripSlash(_)
RStripSlash(s) ==
    IF s /= <<>> /\ s[Len(s)] = "/" THEN RStripSlash(SubSeq(s, 1, Len(s) - 1)) ELSE s

(***************************************************************************)
(* urllib.parse as normalize_url uses it (src/app.py:139-141)              *)
(***************************************************************************)
uses_params == {"", "ftp", "http", "https"}

\* urllib.parse._splitparams(url), called only when ";" is in url
SplitParams(url) ==
    LET i == IF RFind(url, "/") > 0
             THEN Find(url, ";", RFind(url, "/"))
             ELSE Find(url, ";", 1)
    IN IF i = 0
       THEN [path |-> url, params |-> <<>>]
       ELSE [path |-> SubSeq(url, 1, i - 1), params |-> SubSeq(url, i + 1, Len(url))]

\* urlparse(u): the fragment is cut at the first "#", the query at the first
\* "?" of what is left, the params at the first ";" of the last path segment
urlparse(u) ==
    LET h    == Find(u.rest, "#", 1)
        nof  == IF h = 0 THEN u.rest ELSE SubSeq(u.rest, 1, h - 1)
        frag == IF h = 0 THEN <<>> ELSE SubSeq(u.rest, h + 1, Len(u.rest))
        q    == Find(nof, "?", 1)
        url  == IF q = 0 THEN nof ELSE SubSeq(nof, 1, q - 1)
        qry  == IF q = 0 THEN <<>> ELSE SubSeq(nof, q + 1, Len(nof))
        sp   == IF u.scheme \in uses_params /\ Find(url, ";", 1) > 0
                THEN SplitParams(url)
                ELSE [path |-> url, params |-> <<>>]
    IN [scheme |-> u.scheme, netloc |-> u.netloc, path |-> sp.path,
        params |-> sp.params, query |-> qry, fragment |-> frag]

\* urlunparse((scheme, netloc, path, params, query, fragment)), netloc non-empty
urlunparse(scheme, netloc, path, params, query, fragment) ==
    LET withParams == IF params /= <<>> THEN path \o <<";">> \o params ELSE path
        rooted     == IF withParams /= <<>> /\ withParams[1] /= "/"
                      THEN <<"/">> \o withParams
                      ELSE withParams
        withQuery  == IF query /= <<>> THEN rooted \o <<"?">> \o query ELSE rooted
        withFrag   == IF fragment /= <<>> THEN withQuery \o <<"#">> \o fragment ELSE withQuery
    IN [scheme |-> scheme, netloc |-> netloc, rest |-> withFrag]

\* the same, with one trailing "/" removed at most
NormalizedPathOne(path) ==
    LET cut == IF path /= <<>> /\ path[Len(path)] = "/"
               THEN SubSeq(path, 1, Len(path) - 1)
               ELSE path
    IN IF cut = <<>> THEN <<"/">> ELSE cut

\* path = parsed.path.rstrip("/") or "/"
NormalizedPath(path) ==
    IF RStripSlash(path) = <<>> THEN <<"/">> ELSE RStripSlash(path)

normalize_url(url) ==
    LET parsed == urlparse(url)
    IN urlunparse(parsed.scheme, parsed.netloc, NormalizedPath(parsed.path),
                  parsed.params, parsed.query, <<>>)

is_same_domain(url, netloc) == urlparse(url).netloc = netloc

(***************************************************************************)
(* normalize_url on its own: every input up to MaxUrlLen characters        *)
(***************************************************************************)
RestStrings ==
    {s \in UNION {[1..n -> Chars] : n \in 0..MaxUrlLen} :
        s = <<>> \/ s[1] \in {"/", "?", "#"}}

NormInputs == [scheme : {"http", "https"}, netloc : {"h"}, rest : RestStrings]

NoUrl == [scheme |-> "", netloc |-> "", rest |-> <<>>]

(***************************************************************************)
(* The web: URLs, documents and fetch outcomes                             *)
(***************************************************************************)
Url(scheme, netloc, rest) == [scheme |-> scheme, netloc |-> netloc, rest |-> rest]

\* dict.get(key, default) and tag.get(key, default)
Get(page, key, default) == IF key \in DOMAIN page THEN page[key] ELSE default

\* an <a href> of a document: href is urljoin(page url, href attribute), rel the
\* lowercased tokens of the rel attribute, text the stripped anchor text.
\* The texts of the <title> and <h1> tags are sequences of characters.
Anchor(href, rel, text) == [href |-> href, rel |-> rel, text |-> text]

\* the <img>, <script>, <link> and <iframe> tags of a document are records of
\* their src and href attributes, each present or not

BodyAB ==
    [titles |-> << <<"T">> >>, h1s |-> << <<"H">> >>,
     anchors |-> << Anchor(Url("http", "h", <<"/", "a">>), <<>>, "a"),
                    Anchor(Url("http", "h", <<"/", "b">>), <<"nofollow">>, "b") >>,
     resources |-> << [name |-> "link", href |-> Url("https", "h", <<"/", "c">>)],
                      [name |-> "img", src |-> Url("http", "h", <<"/", "i">>)] >>]

BodyLoop ==
    [titles |-> << <<"T">> >>, h1s |-> << <<"H">> >>,
     anchors |-> << Anchor(Url("http", "h", <<"/", "a", "/">>), <<"nofollow">>, "a"),
                    Anchor(Url("http", "h", <<"/", "a", ";", "/">>), <<>>, ""),
                    Anchor(Url("http", "h", <<"/", "#", "a">>), <<>>, "top") >>,
     resources |-> << [name |-> "script"],
                      [name |-> "iframe", src |-> NoUrl,
                       href |-> Url("http", "x", <<"/", "f">>)] >>]

BodyCX ==
    [titles |-> << <<"T">>, <<"T", "2">> >>, h1s |-> << <<"H">> >>,
     anchors |-> << Anchor(Url("ftp", "h", <<"/", "d">>), <<>>, "d"),
                    Anchor(Url("http", "x", <<"/", "a">>), <<"nofollow">>, ""),
                    Anchor(Url("http", "h", <<"/", "c">>), <<>>, "c") >>,
     resources |-> << [name |-> "img", src |-> Url("", "", <<"i">>)],
                      [name |-> "script", src |-> Url("https", "x", <<"/", "j">>)] >>]

BodyNone == [titles |-> <<>>, h1s |-> <<>>, anchors |-> <<>>, resources |-> <<>>]

Html == <<"text/html", "; charset=utf-8">>
Pdf  == <<"application/pdf">>

\* what session.get does: it returns a response or raises an exception
\* (exc: the requests.exceptions classes the raised exception is an instance of)
Response(status, ctype, body) ==
    [exc |-> {}, msg |-> "", status_code |-> status, content_type |-> ctype, body |-> body]

Raise(classes, msg) ==
    [exc |-> classes, msg |-> msg, status_code |-> 0, content_type |-> <<>>, body |-> BodyNone]

ReadTimeout     == Raise({"Timeout", "RequestException"}, "read timed out")
ConnectTimeout  == Raise({"ConnectionError", "Timeout", "RequestException"}, "connect timed out")
ConnectionError == Raise({"ConnectionError", "RequestException"}, "refused")
InvalidURL      == Raise({"RequestException"}, "invalid")

Outcomes ==
    {Response(200, Html, b) : b \in {BodyAB, BodyLoop, BodyCX, BodyNone}}
    \cup {Response(404, Html, BodyNone), Response(200, Pdf, BodyAB)}
    \cup {ReadTimeout, ConnectTimeout, ConnectionError, InvalidURL}

StartUrls == {Url("http", "h", <<>>), Url("http", "h", <<"/", "a", "/">>)}

SitemapLists ==
    LET u1 == Url("http", "h", <<"/">>)
        u2 == Url("https", "x", <<"/", "a", "/">>)
        u3 == Url("http", "h", <<"/", "b", "#", "f">>)
    IN {<<u1>>, <<u2, u1>>, <<u1, u1>>, <<u3, u2, u1>>, <<u1, u2, u3, u2>>}

(***************************************************************************)
(* Page records                                                            *)
(***************************************************************************)
\* status_code is an int (response.status_code) or a str (an error message)
IntStatus(n) == [isint |-> TRUE, code |-> n, text |-> ""]
StrStatus(t) == [isint |-> FALSE, code |-> 0, text |-> t]

\* "text/html" not in content_type
IsHtml(content_type) == \E i \in 1..Len(content_type) : content_type[i] = "text/html"

HttpScheme(u) == urlparse(u).scheme \in {"http", "https"}

\* the classes of <a href> tags the link analysis counts, for a page of host netloc
InternalAnchor(a, netloc) == HttpScheme(a.href) /\ is_same_domain(a.href, netloc)
ExternalAnchor(a, netloc) == HttpScheme(a.href) /\ ~is_same_domain(a.href, netloc)
\* nofollow counted on external links too
NofollowAnyAnchor(a, netloc) ==
    HttpScheme(a.href) /\ \E i \in 1..Len(a.rel) : a.rel[i] = "nofollow"

NofollowAnchor(a, netloc) ==
    InternalAnchor(a, netloc) /\ \E i \in 1..Len(a.rel) : a.rel[i] = "nofollow"
EmptyAnchor(a, netloc) == InternalAnchor(a, netloc) /\ a.text = ""

\* the fields of the record that the documents of the crawl model fill; the
\* record's other fields (h2_list, images, canonicals, headers, ...) play no
\* part in the traversal and keep the values given here in the code, which are
\* the defaults the audit's page.get calls fall back to
DefaultPage(url, status, depth) ==
    [URL |-> url, status_code |-> status,
     title |-> <<>>, title_count |-> 0,
     h1 |-> <<>>, h1_count |-> 0,
     internal_outlinks |-> 0, external_outlinks |-> 0,
     nofollow_outlinks |-> 0, empty_anchor_links |-> 0,
     mixed_content |-> <<>>,
     depth |-> depth]

\* tag.get("src") or tag.get("href") or ""
ResourceUrl(tag) ==
    IF Get(tag, "src", NoUrl) /= NoUrl THEN tag.src ELSE Get(tag, "href", NoUrl)

\* the resources whose address starts with "http://", in document order
MixedContent(resources) ==
    LET addresses == [i \in DOMAIN resources |-> ResourceUrl(resources[i])]
    IN SelectSeq(addresses, LAMBDA src : src.scheme = "http")

\* the mixed-content scan run whatever the scheme of the page
IsHttpOrHttps(url) == urlparse(url).scheme \in {"http", "https"}

\* is_https
IsHttps(url) == urlparse(url).scheme = "https"

extract_rich_page_data(url, response, depth) ==
    LET data == DefaultPage(url, IntStatus(response.status_code), depth)
        body == response.body
        tags == body.anchors
        netloc == urlparse(url).netloc
    IN IF ~IsHtml(response.content_type)
       THEN data
       ELSE [data EXCEPT
               !.title_count = Len(body.titles),
               !.title = IF body.titles /= <<>> THEN body.titles[1] ELSE <<>>,
               !.h1_count = Len(body.h1s),
               !.h1 = IF body.h1s /= <<>> THEN body.h1s[1] ELSE <<>>,
               !.internal_outlinks =
                    Cardinality({i \in DOMAIN tags : InternalAnchor(tags[i], netloc)}),
               !.external_outlinks =
                    Cardinality({i \in DOMAIN tags : ExternalAnchor(tags[i], netloc)}),
               !.nofollow_outlinks =
                    Cardinality({i \in DOMAIN tags : NofollowAnchor(tags[i], netloc)}),
               !.empty_anchor_links =
                    Cardinality({i \in DOMAIN tags : EmptyAnchor(tags[i], netloc)}),
               !.mixed_content =
                    IF IsHttps(url) THEN MixedContent(body.resources) ELSE <<>>]

RECURSIVE InternalOf(_, _)
InternalOf(anchors, netloc) ==
    IF anchors = <<>> THEN <<>>
    ELSE LET normalized == normalize_url(Head(anchors).href)
         IN (IF HttpScheme(normalized) /\ is_same_domain(normalized, netloc)
             THEN <<normalized>> ELSE <<>>)
            \o InternalOf(Tail(anchors), netloc)

\* the links taken whatever the Content-Type
ExtractLinksAnyType(url, response, netloc) == InternalOf(response.body.anchors, netloc)

extract_internal_links(url, response, netloc) ==
    IF ~IsHtml(response.content_type) THEN <<>>
    ELSE InternalOf(response.body.anchors, netloc)

\* the error record built without the page's depth
MakeErrorPageDepthZero(url, error_msg, depth) == DefaultPage(url, StrStatus(error_msg), 0)

make_error_page(url, error_msg, depth) == DefaultPage(url, StrStatus(error_msg), depth)

\* one message for every exception
ErrorMessageSame(outcome) == "Timeout"

\* the except clauses of the crawl loops, in order
ErrorMessage(outcome) ==
    IF "Timeout" \in outcome.exc THEN "Timeout"
    ELSE IF "ConnectionError" \in outcome.exc THEN "Erreur connexion"
    ELSE "Erreur: " \o outcome.msg

(***************************************************************************)
(* crawl_bfs (src/app.py:377-443)                                          *)
(***************************************************************************)
\* the loop left one page early
BfsLoopCondShort == queue /= <<>> /\ Len(raw_pages) < max_pages - 1

\* while queue and len(raw_pages) < max_pages
BfsLoopCond == queue /= <<>> /\ Len(raw_pages) < max_pages

\* the flag never polled
StopNeverPolled == FALSE

\* if stop_button
StopRequested == stop_button

\* queue.pop(): the newest entry instead of the oldest
PopRight(q) == [item |-> q[Len(q)], rest |-> SubSeq(q, 1, Len(q) - 1)]

\* queue.popleft()
PopLeft(q) == [item |-> Head(q), rest |-> Tail(q)]

\* the membership test left out
MayEnqueueSeen(link, seen) == Cardinality(seen) < max_pages

\* the discovery-side cap left out
MayEnqueueNoCap(link, seen) == link \notin seen

\* if link not in visited and len(visited) < max_pages
MayEnqueue(link, seen) == link \notin seen /\ Cardinality(seen) < max_pages

\* the child enqueued at its parent's depth
ChildDepthSame(depth) == depth

\* queue.append((link, depth + 1))
ChildDepth(depth) == depth + 1

\* for link in internal_links: ...   (st: the visited set, the queue and the histories)
RECURSIVE EnqueueLinks(_, _, _, _)
EnqueueLinks(links, st, from, depth) ==
    IF links = <<>> THEN st
    ELSE LET link == Head(links)
             entry == <<link, ChildDepth(depth)>>
             st2 == IF MayEnqueue(link, st.visited)
                    THEN [visited |-> st.visited \cup {link},
                          queue   |-> Append(st.queue, entry),
                          enqLog  |-> Append(st.enqLog, entry),
                          parent  |-> st.parent \cup
                                      {[url |-> link, from |-> from, fromDepth |-> depth]}]
                    ELSE st
         IN EnqueueLinks(Tail(links), st2, from, depth)

BfsInit ==
    /\ mode = "bfs"
    /\ start_url \in StartUrls
    /\ urls_in = <<>>
    /\ base_netloc = urlparse(normalize_url(start_url)).netloc
    /\ visited = {normalize_url(start_url)}
    /\ queue = << <<normalize_url(start_url), 0>> >>
    /\ enqLog = << <<normalize_url(start_url), 0>> >>
    /\ urls = <<>>

\* the loop test fails: the function returns raw_pages
BfsExit ==
    /\ mode = "bfs" /\ pc = "loop"
    /\ ~BfsLoopCond
    /\ pc' = "done"
    /\ returned' = raw_pages
    /\ UNCHANGED <<normVars, auditVars, launchVars, deqLog>>
    /\ UNCHANGED <<mode, start_url, urls_in, max_pages, stop_button, base_netloc, visited,
                   queue, urls, idx, raw_pages, stopped, cur, fetchLog, enqLog, parent>>

\* if stop_button: stopped = True; break
BfsStop ==
    /\ mode = "bfs" /\ pc = "loop"
    /\ BfsLoopCond
    /\ StopRequested
    /\ stopped' = TRUE
    /\ pc' = "done"
    /\ returned' = raw_pages
    /\ UNCHANGED <<normVars, auditVars, launchVars, deqLog>>
    /\ UNCHANGED <<mode, start_url, urls_in, max_pages, stop_button, base_netloc, visited,
                   queue, urls, idx, raw_pages, cur, fetchLog, enqLog, parent>>

\* current_url, depth = queue.popleft()
BfsDequeue ==
    /\ mode = "bfs" /\ pc = "loop"
    /\ BfsLoopCond
    /\ ~StopRequested
    /\ cur' = PopLeft(queue).item
    /\ deqLog' = Append(deqLog, PopLeft(queue).item)
    /\ queue' = PopLeft(queue).rest
    /\ pc' = "fetch"
    /\ UNCHANGED <<normVars, auditVars, launchVars>>
    /\ UNCHANGED <<mode, start_url, urls_in, max_pages, stop_button, base_netloc, visited,
                   urls, idx, raw_pages, stopped, returned, fetchLog, enqLog, parent>>

\* the try block and its except clauses
BfsFetch ==
    /\ mode = "bfs" /\ pc = "fetch"
    /\ \E response \in Outcomes :
        LET current_url == cur[1]
            depth == cur[2]
        IN /\ fetchLog' = Append(fetchLog,
                                 [url |-> current_url, depth |-> depth, resp |-> response])
           /\ IF response.exc = {}
              THEN LET st == EnqueueLinks(
                                extract_internal_links(current_url, response, base_netloc),
                                [visited |-> visited, queue |-> queue,
                                 enqLog |-> enqLog, parent |-> parent],
                                current_url, depth)
                   IN /\ raw_pages' = Append(raw_pages,
                                             extract_rich_page_data(current_url, response, depth))
                      /\ visited' = st.visited
                      /\ queue' = st.queue
                      /\ enqLog' = st.enqLog
                      /\ parent' = st.parent
              ELSE /\ raw_pages' = Append(raw_pages,
                                          make_error_page(current_url, ErrorMessage(response), depth))
                   /\ UNCHANGED <<visited, queue, enqLog, parent>>
    /\ pc' = "loop"
    /\ UNCHANGED <<normVars, auditVars, launchVars, deqLog>>
    /\ UNCHANGED <<mode, start_url, urls_in, max_pages, stop_button, base_netloc,
                   urls, idx, stopped, cur, returned>>

(***************************************************************************)
(* crawl_sitemap (src/app.py:449-499)                                      *)
(***************************************************************************)
\* the list taken whole
SliceUrlsAll(list, n) == list

\* urls = urls[:max_pages]
SliceUrls(list, n) == SubSeq(list, 1, IF n < Len(list) THEN n ELSE Len(list))

SitemapInit ==
    /\ mode = "sitemap"
    /\ start_url = NoUrl
    /\ urls_in \in SitemapLists
    /\ urls = SliceUrls(urls_in, max_pages)
    /\ base_netloc = ""
    /\ visited = {}
    /\ queue = <<>>
    /\ enqLog = <<>>

\* the for loop has run through urls
SitemapExit ==
    /\ mode = "sitemap" /\ pc = "loop"
    /\ idx >= Len(urls)
    /\ pc' = "done"
    /\ returned' = raw_pages
    /\ UNCHANGED <<normVars, auditVars, launchVars, deqLog>>
    /\ UNCHANGED <<mode, start_url, urls_in, max_pages, stop_button, base_netloc, visited,
                   queue, urls, idx, raw_pages, stopped, cur, fetchLog, enqLog, parent>>

SitemapStop ==
    /\ mode = "sitemap" /\ pc = "loop"
    /\ idx < Len(urls)
    /\ StopRequested
    /\ stopped' = TRUE
    /\ pc' = "done"
    /\ returned' = raw_pages
    /\ UNCHANGED <<normVars, auditVars, launchVars, deqLog>>
    /\ UNCHANGED <<mode, start_url, urls_in, max_pages, stop_button, base_netloc, visited,
                   queue, urls, idx, raw_pages, cur, fetchLog, enqLog, parent>>

\* for i, url in enumerate(urls)
SitemapTake ==
    /\ mode = "sitemap" /\ pc = "loop"
    /\ idx < Len(urls)
    /\ ~StopRequested
    /\ cur' = <<urls[idx + 1], 0>>
    /\ deqLog' = Append(deqLog, <<urls[idx + 1], 0>>)
    /\ idx' = idx + 1
    /\ pc' = "fetch"
    /\ UNCHANGED <<normVars, auditVars, launchVars>>
    /\ UNCHANGED <<mode, start_url, urls_in, max_pages, stop_button, base_netloc, visited,
                   queue, urls, raw_pages, stopped, returned, fetchLog, enqLog, parent>>

SitemapFetch ==
    /\ mode = "sitemap" /\ pc = "fetch"
    /\ \E response \in Outcomes :
        LET url == cur[1]
        IN /\ fetchLog' = Append(fetchLog, [url |-> url, depth |-> 0, resp |-> response])
           /\ raw_pages' = Append(raw_pages,
                                  IF response.exc = {}
                                  THEN extract_rich_page_data(url, response, 0)
                                  ELSE make_error_page(url, ErrorMessage(response), 0))
    /\ pc' = "loop"
    /\ UNCHANGED <<normVars, auditVars, launchVars, deqLog>>
    /\ UNCHANGED <<mode, start_url, urls_in, max_pages, stop_button, base_netloc, visited,
                   queue, urls, idx, stopped, cur, returned, enqLog, parent>>

(***************************************************************************)
(* The audit (src/seo_checks.py).  A page is a record read with            *)
(* page.get(key, default); a text field (title, h1, meta description, alt, *)
(* ...) is a sequence of characters.  A finding is the record create_issue *)
(* builds, without its Description and Guidance, the two free texts that   *)
(* no rule reads.                                                          *)
(***************************************************************************)
\* page.get("status_code") of a record without that key: None, which is not an int
NoStatus == [isint |-> FALSE, code |-> 0, text |-> "None"]

\* a text of n characters c
Rep(n, c) == [i \in 1..n |-> c]

UpperLetters ==
    <<"A", "B", "C", "D", "E", "F", "G", "H", "I", "J", "K", "L", "M",
      "N", "O", "P", "Q", "R", "S", "T", "U", "V", "W", "X", "Y", "Z">>

LowerLetters ==
    <<"a", "b", "c", "d", "e", "f", "g", "h", "i", "j", "k", "l", "m",
      "n", "o", "p", "q", "r", "s", "t", "u", "v", "w", "x", "y", "z">>

\* str.lower() of one character
LowerChar(c) ==
    IF \E i \in DOMAIN UpperLetters : UpperLetters[i] = c
    THEN LowerLetters[CHOOSE i \in DOMAIN UpperLetters : UpperLetters[i] = c]
    ELSE c

Lower(s) == [i \in DOMAIN s |-> LowerChar(s[i])]

\* str.strip(): leading and trailing whitespace removed
RECURSIVE Strip(_)
Strip(s) ==
    IF s = <<>> THEN s
    ELSE IF Head(s) = " " THEN Strip(Tail(s))
    ELSE IF s[Len(s)] = " " THEN Strip(SubSeq(s, 1, Len(s) - 1))
    ELSE s

\* sub in s
Contains(s, sub) ==
    \E i \in 1..(Len(s) - Len(sub) + 1) : SubSeq(s, i, i + Len(sub) - 1) = sub

\* the characters of the model that str.encode("ascii") rejects
NonAscii == {"e-acute"}

create_issue(category, check, type, priority, url) ==
    [Category |-> category, Check |-> check, Type |-> type, Priority |-> priority,
     URL |-> url]

\* the upper end of the redirect band taken in
RedirectsInclusive(code) == 300 <= code /\ code <= 400

\* 300 <= status < 400
Redirects(code) == 300 <= code /\ code < 400

check_response_codes(page) ==
    LET url    == page.URL
        status == Get(page, "status_code", NoStatus)
        code   == status.code
    IN IF ~status.isint
       THEN <<create_issue("Response Codes", "No Response", "Issue", "High", url)>>
       ELSE IF Redirects(code)
       THEN <<create_issue("Response Codes", "Redirection " \o ToString(code),
                           "Warning", "Medium", url)>>
       ELSE IF code = 404
       THEN <<create_issue("Response Codes", "404 Not Found", "Issue", "High", url)>>
       ELSE IF code = 410
       THEN <<create_issue("Response Codes", "410 Gone", "Issue", "Medium", url)>>
       ELSE IF 400 <= code /\ code < 500
       THEN <<create_issue("Response Codes", "Client Error " \o ToString(code),
                           "Issue", "High", url)>>
       ELSE IF code >= 500
       THEN <<create_issue("Response Codes", "Server Error " \o ToString(code),
                           "Issue", "High", url)>>
       ELSE <<>>

\* response_headers is the set of the lowercased names of the headers received
check_security(page) ==
    LET url           == page.URL
        headers       == Get(page, "response_headers", {})
        mixed_content == Get(page, "mixed_content", <<>>)
        Missing(name, check, priority) ==
            IF name \notin headers
            THEN <<create_issue("Security", check, "Warning", priority, url)>>
            ELSE <<>>
    IN (IF urlparse(url).scheme = "http"
        THEN <<create_issue("Security", "HTTP URL", "Issue", "High", url)>> ELSE <<>>)
       \o (IF mixed_content /= <<>>
           THEN <<create_issue("Security", "Mixed Content", "Issue", "High", url)>>
           ELSE <<>>)
       \o Missing("strict-transport-security", "Missing HSTS Header", "Medium")
       \o Missing("content-security-policy",
                  "Missing Content-Security-Policy Header", "Low")
       \o Missing("x-content-type-options",
                  "Missing X-Content-Type-Options Header", "Low")
       \o Missing("x-frame-options", "Missing X-Frame-Options Header", "Low")

\* len(url) of the string scheme://netloc ++ rest
UrlLen(url) == Len(url.scheme) + 3 + Len(url.netloc) + Len(url.rest)

\* the hosts of the model hold no space, no "%" and no non-ASCII character, so
\* the tests on the whole url are tests on what follows the authority
check_url(page) ==
    LET url    == page.URL
        parsed == urlparse(url)
        path   == parsed.path
        When(cond, check, type, priority) ==
            IF cond THEN <<create_issue("URL", check, type, priority, url)>> ELSE <<>>
    IN When(Contains(path, <<"/", "/">>), "Multiple Slashes", "Issue", "Medium")
       \o When(Contains(url.rest, <<" ">>) \/ Contains(url.rest, <<"%", "2", "0">>),
               "Contains A Space", "Issue", "Medium")
       \o When(path /= Lower(path), "Uppercase", "Warning", "Low")
       \o When(parsed.query /= <<>>, "Parameters", "Warning", "Low")
       \o When(Contains(path, <<"_">>), "Underscores", "Opportunity", "Low")
       \o When(UrlLen(url) > 115, "Over 115 Characters", "Opportunity", "Low")
       \o When(\E i \in DOMAIN url.rest : url.rest[i] \in NonAscii,
               "Non ASCII Characters", "Warning", "Medium")

\* a title one character short of the limit taken for too long
TitleOverInclusive(title_len) == title_len >= 60

\* title_len > 60
TitleOver(title_len) == title_len > 60

check_page_title(page) ==
    LET url         == page.URL
        title       == Get(page, "title", <<>>)
        title_count == Get(page, "title_count", 0)
        h1          == Get(page, "h1", <<>>)
        title_len   == Len(title)
    IN IF title = <<>>
       THEN <<create_issue("Page Titles", "Missing", "Issue", "High", url)>>
       ELSE (IF title_count > 1
             THEN <<create_issue("Page Titles", "Multiple", "Issue", "Medium", url)>>
             ELSE <<>>)
            \o (IF TitleOver(title_len)
                THEN <<create_issue("Page Titles", "Over 60 Characters",
                                    "Opportunity", "Medium", url)>>
                ELSE IF title_len < 30
                THEN <<create_issue("Page Titles", "Below 30 Characters",
                                    "Opportunity", "Low", url)>>
                ELSE <<>>)
            \o (IF h1 /= <<>> /\ Lower(Strip(title)) = Lower(Strip(h1))
                THEN <<create_issue("Page Titles", "Same as H1", "Opportunity", "Low", url)>>
                ELSE <<>>)

check_meta_description(page) ==
    LET url             == page.URL
        meta_desc       == Get(page, "meta_description", <<>>)
        meta_desc_count == Get(page, "meta_description_count", 0)
        desc_len        == Len(meta_desc)
    IN IF meta_desc = <<>>
       THEN <<create_issue("Meta Description", "Missing", "Opportunity", "Medium", url)>>
       ELSE (IF meta_desc_count > 1
             THEN <<create_issue("Meta Description", "Multiple", "Issue", "Medium", url)>>
             ELSE <<>>)
            \o (IF desc_len > 155
                THEN <<create_issue("Meta Description", "Over 155 Characters",
                                    "Opportunity", "Low", url)>>
                ELSE IF desc_len < 70
                THEN <<create_issue("Meta Description", "Below 70 Characters",
                                    "Opportunity", "Low", url)>>
                ELSE <<>>)

check_h1(page) ==
    LET url      == page.URL
        h1       == Get(page, "h1", <<>>)
        h1_count == Get(page, "h1_count", 0)
    IN IF h1 = <<>>
       THEN <<create_issue("H1", "Missing", "Issue", "High", url)>>
       ELSE (IF h1_count > 1
             THEN <<create_issue("H1", "Multiple", "Warning", "Medium", url)>>
             ELSE <<>>)
            \o (IF Len(h1) > 70
                THEN <<create_issue("H1", "Over 70 Characters", "Opportunity", "Low", url)>>
                ELSE <<>>)

\* for h2 in h2_list: if len(h2) > 70
RECURSIVE H2Over(_, _)
H2Over(h2_list, url) ==
    IF h2_list = <<>> THEN <<>>
    ELSE (IF Len(Head(h2_list)) > 70
          THEN <<create_issue("H2", "Over 70 Characters", "Opportunity", "Low", url)>>
          ELSE <<>>)
         \o H2Over(Tail(h2_list), url)

check_h2(page) ==
    LET url     == page.URL
        h2_list == Get(page, "h2_list", <<>>)
        h1      == Get(page, "h1", <<>>)
    IN (IF h2_list = <<>>
        THEN <<create_issue("H2", "Missing", "Warning", "Low", url)>> ELSE <<>>)
       \o H2Over(h2_list, url)
       \o (IF h2_list /= <<>> /\ h1 = <<>>
           THEN <<create_issue("H2", "Non-sequential", "Warning", "Medium", url)>>
           ELSE <<>>)

\* the value of an attribute: None (attribute absent) or a str
None == [isstr |-> FALSE, text |-> <<>>]
Str(text) == [isstr |-> TRUE, text |-> text]

\* an empty alt taken for an absent one
AltIsNoneOrEmpty(alt) == ~alt.isstr \/ alt.text = <<>>

\* alt is None
AltIsNone(alt) == ~alt.isstr

\* for img in images
RECURSIVE ImageIssues(_, _)
ImageIssues(images, url) ==
    IF images = <<>> THEN <<>>
    ELSE LET alt == Get(Head(images), "alt", None)
         IN (IF AltIsNone(alt)
             THEN <<create_issue("Images", "Missing Alt Attribute", "Issue", "Medium", url)>>
             ELSE IF alt.text = <<>>
             THEN <<create_issue("Images", "Missing Alt Text", "Issue", "Medium", url)>>
             ELSE IF Len(alt.text) > 100
             THEN <<create_issue("Images", "Alt Text Over 100 Characters",
                                 "Opportunity", "Low", url)>>
             ELSE <<>>)
            \o ImageIssues(Tail(images), url)

check_images(page) == ImageIssues(Get(page, "images", <<>>), page.URL)

\* canonical.startswith("http://")
StartsWithHttpColon(canonical) == canonical.scheme = "http"

\* canonical.startswith("http"), for an href kept as [scheme, netloc, rest]
\* (a relative href has an empty scheme and netloc)
StartsWithHttp(canonical) ==
    \/ canonical.scheme \in {"http", "https"}
    \/ /\ canonical.scheme = "" /\ canonical.netloc = ""
       /\ Len(canonical.rest) >= 4
       /\ SubSeq(canonical.rest, 1, 4) = <<"h", "t", "t", "p">>

\* canonical != url, on the paths alone
DiffersInPath(canonical, url) == canonical.rest /= url.rest

\* canonical != url
Differs(canonical, url) == canonical /= url

check_canonicals(page) ==
    LET url        == page.URL
        canonicals == Get(page, "canonicals", <<>>)
        canonical  == canonicals[1]
    IN IF canonicals = <<>>
       THEN <<create_issue("Canonicals", "Missing", "Warning", "Medium", url)>>
       ELSE IF Len(canonicals) > 1
       THEN <<create_issue("Canonicals", "Multiple Conflicting", "Issue", "High", url)>>
       ELSE (IF canonical /= NoUrl /\ Differs(canonical, url)
             THEN <<create_issue("Canonicals", "Canonicalised", "Warning", "Medium", url)>>
             ELSE <<>>)
            \o (IF canonical /= NoUrl /\ ~StartsWithHttp(canonical)
                THEN <<create_issue("Canonicals", "Canonical Is Relative",
                                    "Warning", "Low", url)>>
                ELSE <<>>)

check_directives(page) ==
    LET url         == page.URL
        meta_robots == Lower(Get(page, "meta_robots", <<>>))
        x_robots    == Lower(Get(page, "x_robots_tag", <<>>))
        combined    == meta_robots \o <<" ">> \o x_robots
        When(word, check, priority) ==
            IF Contains(combined, word)
            THEN <<create_issue("Directives", check, "Warning", priority, url)>>
            ELSE <<>>
    IN When(<<"n", "o", "i", "n", "d", "e", "x">>, "Noindex", "High")
       \o When(<<"n", "o", "f", "o", "l", "l", "o", "w">>, "Nofollow", "Medium")
       \o When(<<"n", "o", "n", "e">>, "None", "High")
       \o When(<<"n", "o", "s", "n", "i", "p", "p", "e", "t">>, "NoSnippet", "Low")

check_links(page) ==
    LET url == page.URL
        When(cond, check, type, priority) ==
            IF cond THEN <<create_issue("Links", check, type, priority, url)>> ELSE <<>>
    IN When(Get(page, "depth", 0) > 3,
            "Pages With High Crawl Depth", "Opportunity", "Medium")
       \o When(Get(page, "internal_outlinks", 0) = 0,
               "Pages Without Internal Outlinks", "Warning", "Medium")
       \o When(Get(page, "external_outlinks", 0) > 100,
               "Pages With High External Outlinks", "Warning", "Low")
       \o When(Get(page, "nofollow_outlinks", 0) > 0,
               "Internal Nofollow Outlinks", "Warning", "Low")
       \o When(Get(page, "empty_anchor_links", 0) > 0,
               "Internal Outlinks With No Anchor Text", "Opportunity", "Medium")

check_content(page) ==
    LET url          == page.URL
        word_count   == Get(page, "word_count", 0)
        text_content == Lower(Get(page, "text_content", <<>>))
        status       == Get(page, "status_code", NoStatus)
    IN (IF word_count < 100 /\ status.isint /\ status.code = 200
        THEN <<create_issue("Content", "Low Content Pages", "Opportunity", "Medium", url)>>
        ELSE <<>>)
       \o (IF Contains(text_content,
                       <<"l", "o", "r", "e", "m", " ", "i", "p", "s", "u", "m">>)
           THEN <<create_issue("Content", "Lorem Ipsum Placeholder", "Warning", "High", url)>>
           ELSE <<>>)

check_validation(page) ==
    LET url == page.URL
        When(cond, check, priority) ==
            IF cond THEN <<create_issue("Validation", check, "Issue", priority, url)>>
            ELSE <<>>
    IN When(~Get(page, "has_head_tag", TRUE), "Missing <head> Tag", "High")
       \o When(Get(page, "head_count", 1) > 1, "Multiple <head> Tags", "Medium")
       \o When(~Get(page, "has_body_tag", TRUE), "Missing <body> Tag", "High")
       \o When(Get(page, "body_count", 1) > 1, "Multiple <body> Tags", "Medium")
       \o When(Get(page, "html_size_bytes", 0) > 15000000,
               "HTML Document Over 15mb", "High")

\* a value held by a single page reported as well
SharedByAny(group_urls) == Len(group_urls) >= 1

\* len(urls) > 1
SharedBySeveral(group_urls) == Len(group_urls) > 1

\* one pass of check_duplicates over the field key: the dict maps every
\* non-empty value to the URLs of the pages that hold it, in page order, and is
\* iterated in insertion order, that is by first occurrence of the value
RECURSIVE DuplicatesOf(_, _, _, _, _)
DuplicatesOf(all_pages, key, category, priority, i) ==
    IF i > Len(all_pages) THEN <<>>
    ELSE LET value  == Get(all_pages[i], key, <<>>)
             first  == /\ value /= <<>>
                       /\ \A j \in 1..(i - 1) : Get(all_pages[j], key, <<>>) /= value
             holders == SelectSeq(all_pages, LAMBDA page : Get(page, key, <<>>) = value)
             group_urls == [k \in DOMAIN holders |-> holders[k].URL]
         IN (IF first /\ SharedBySeveral(group_urls)
             THEN [k \in DOMAIN group_urls |->
                      create_issue(category, "Duplicate", "Opportunity", priority, group_urls[k])]
             ELSE <<>>)
            \o DuplicatesOf(all_pages, key, category, priority, i + 1)

check_duplicates(all_pages) ==
    DuplicatesOf(all_pages, "title", "Page Titles", "Medium", 1)
    \o DuplicatesOf(all_pages, "meta_description", "Meta Description", "Medium", 1)
    \o DuplicatesOf(all_pages, "h1", "H1", "Low", 1)

\* the registry with check_security left out
ChecksWithoutSecurity(page) ==
    check_response_codes(page) \o check_url(page)
    \o check_page_title(page) \o check_meta_description(page) \o check_h1(page)
    \o check_h2(page) \o check_images(page) \o check_canonicals(page)
    \o check_directives(page) \o check_links(page) \o check_content(page)
    \o check_validation(page)

\* for check_fn in PER_PAGE_CHECKS: all_issues.extend(check_fn(page))
PER_PAGE_CHECKS(page) ==
    check_response_codes(page) \o check_security(page) \o check_url(page)
    \o check_page_title(page) \o check_meta_description(page) \o check_h1(page)
    \o check_h2(page) \o check_images(page) \o check_canonicals(page)
    \o check_directives(page) \o check_links(page) \o check_content(page)
    \o check_validation(page)

RECURSIVE PerPageIssues(_)
PerPageIssues(all_pages) ==
    IF all_pages = <<>> THEN <<>>
    ELSE PER_PAGE_CHECKS(Head(all_pages)) \o PerPageIssues(Tail(all_pages))

run_audit(all_pages) == PerPageIssues(all_pages) \o check_duplicates(all_pages)

(***************************************************************************)
(* The img tags of a document as extract_rich_page_data records them       *)
(* (src/app.py:232-241).  A tag is a record of its attributes.             *)
(***************************************************************************)
\* img.get("alt"): None when the attribute is absent, its value otherwise
ImagesData(img_tags) ==
    [i \in DOMAIN img_tags |->
        [src |-> Get(img_tags[i], "src", <<>>),
         alt |-> IF "alt" \in DOMAIN img_tags[i] THEN Str(img_tags[i].alt) ELSE None]]

\* the hrefs of the <link rel="canonical"> tags that have a non-empty href
\* (src/app.py:228-230); an href is kept as written, never joined to the page
Canonicals(canonical_tags) ==
    LET with_href == SelectSeq(canonical_tags,
                               LAMBDA tag : Get(tag, "href", NoUrl) /= NoUrl)
    IN [i \in DOMAIN with_href |-> with_href[i].href]

(***************************************************************************)
(* The record lists given to run_audit                                     *)
(***************************************************************************)
\* the longest list given to run_audit
MaxAuditPages == 3

PageA == Url("https", "x.test", <<"/", "a">>)

\* the URL of the i-th record of a list
PosUrl(i) == Url("https", "x.test", <<"/", ToString(i)>>)

StatusCodes ==
    {-1, 0, 200, 204, 299, 300, 301, 399, 400, 403, 404, 410, 411, 499, 500, 503, 600}

ErrorTags == {"Timeout", "Erreur connexion", "Erreur: invalid"}

\* records that hold a URL and a status only, or a URL only
StatusPages ==
    {[URL |-> PageA, status_code |-> IntStatus(n)] : n \in StatusCodes}
    \cup {[URL |-> PageA, status_code |-> StrStatus(t)] : t \in ErrorTags}
    \cup {[URL |-> PageA]}

Titles ==
    {<<>>, <<" ">>, <<"H", "o", "m", "e">>, <<" ", "h", "o", "m", "e", " ">>,
     Rep(29, "a"), Rep(30, "a"), Rep(60, "a"), Rep(61, "a")}

H1s == {<<>>, <<" ">>, <<"H", "O", "M", "E">>, Rep(30, "a"), Rep(61, "A")}

TitlePages ==
    {[URL |-> PageA, status_code |-> IntStatus(200),
      title |-> t, title_count |-> n, h1 |-> h] :
        t \in Titles, n \in 0..2, h \in H1s}

ImgTags ==
    {[src |-> <<"i">>], [alt |-> <<>>],
     [src |-> <<"i">>, alt |-> <<>>], [src |-> <<"i">>, alt |-> <<"x">>],
     [src |-> <<"i">>, alt |-> Rep(100, "x")], [src |-> <<"i">>, alt |-> Rep(101, "x")]}

ImagePages ==
    {[URL |-> PageA, status_code |-> IntStatus(200), images |-> ImagesData(tags)] :
        tags \in UNION {[1..n -> ImgTags] : n \in 0..2}}

\* a relative href
Rel(rest) == Url("", "", rest)

\* <link rel="canonical"> tags: without href, with an empty one, pointing at
\* the page, elsewhere, and written without scheme and host
CanonicalTags ==
    {[rel |-> "canonical"], [rel |-> "canonical", href |-> NoUrl]}
    \cup {[rel |-> "canonical", href |-> h] :
             h \in {PageA, Url("https", "x.test", <<"/", "b">>),
                    Url("http", "x.test", <<"/", "a">>),
                    Rel(<<"/", "a">>), Rel(<<"h", "t", "t", "p", "/", "a">>)}}

CanonicalPages ==
    {[URL |-> PageA, status_code |-> IntStatus(200), canonicals |-> Canonicals(tags)] :
        tags \in UNION {[1..n -> CanonicalTags] : n \in 0..2}}

\* the three fields check_duplicates groups by
DupFields ==
    [title : {<<>>, <<"H", "o", "m", "e">>, <<"h", "o", "m", "e">>},
     meta_description : {<<>>, <<"M">>},
     h1 : {<<>>, <<"H", "o", "m", "e">>}]

\* lists of up to MaxAuditPages records, at distinct URLs or all at one URL (a
\* sitemap may list a URL twice)
PageLists ==
    {[i \in DOMAIN f |->
        [URL |-> IF same THEN PosUrl(1) ELSE PosUrl(i),
         status_code |-> IntStatus(200),
         title |-> f[i].title,
         meta_description |-> f[i].meta_description,
         h1 |-> f[i].h1]] :
        f \in UNION {[1..n -> DupFields] : n \in 1..MaxAuditPages}, same \in BOOLEAN}

AuditInputs ==
    {<<page>> : page \in StatusPages \cup TitlePages \cup ImagePages \cup CanonicalPages}
    \cup PageLists

(***************************************************************************)
(* parse_sitemap (src/app.py:308-334).  A sitemap document is the list of  *)
(* its <url> and <sitemap> elements, each with the text of its <loc>; ns   *)
(* tells whether the document declares the sitemap namespace, which all    *)
(* its elements then carry.  The text of a <loc> is an address, with or    *)
(* without white space around it.                                          *)
(***************************************************************************)
\* the text of a <loc>: NoUrl unpadded is an empty element, NoUrl padded one
\* that holds white space only
Loc(url, padded) == [url |-> url, padded |-> padded]

Entry(tag, loc) == [tag |-> tag, loc |-> loc]

\* XML bytes: a document, bytes that do not parse, or no byte at all
XmlDoc(ns, entries) == [empty |-> FALSE, wellformed |-> TRUE, ns |-> ns, entries |-> entries]
Malformed  == [empty |-> FALSE, wellformed |-> FALSE, ns |-> FALSE, entries |-> <<>>]
EmptyBytes == [empty |-> TRUE, wellformed |-> FALSE, ns |-> FALSE, entries |-> <<>>]

\* file_content=None, and the uploader without a file
NoFile == [absent |-> TRUE]

\* requests.get(source_url) followed by raise_for_status(): the content, or
\* an exception of the classes given
Fetched(content) == [exc |-> {}, content |-> content]
FetchFails(classes) == [exc |-> classes, content |-> EmptyBytes]

\* if elem.text
HasText(loc) == loc.padded \/ loc.url /= NoUrl

\* elem.text.strip()
StripText(loc) == loc.url

\* the except clause of a handler that catches requests' exceptions only
CaughtIfRequestException(exc) == "RequestException" \in exc

\* except Exception: every exception raised in the try block is caught
Caught(exc) == TRUE

\* the try block left by an exception with state st = [urls, errors, raised]:
\* the handler shows one message and urls is returned as it stands; raised
\* holds the classes of an exception that left the function instead
Handle(exc, st) ==
    IF Caught(exc) THEN [urls |-> st.urls, errors |-> st.errors + 1, raised |-> {}]
    ELSE [st EXCEPT !.raised = exc]

NoneYet == [urls |-> <<>>, errors |-> 0, raised |-> {}]

\* root.findall(".//sm:url/sm:loc", ns) and root.findall(".//sm:sitemap/sm:loc", ns):
\* the elements of that name in the sitemap namespace, with a text
Lookup(root, tag) ==
    SelectSeq(root.entries, LAMBDA e : root.ns /\ e.tag = tag /\ HasText(e.loc))

\* root.iter("loc"): every <loc> outside any namespace, with a text
EveryLoc(root) ==
    SelectSeq(root.entries, LAMBDA e : ~root.ns /\ HasText(e.loc))

Texts(elems) == [i \in DOMAIN elems |-> StripText(elems[i].loc)]

RECURSIVE parse_sitemap(_, _, _)
RECURSIVE ExtendWithChildren(_, _, _)

\* for sitemap_elem in ...: urls.extend(parse_sitemap(source_url=...)),
\* from the state st = [urls, errors, raised]
ExtendWithChildren(sitemap_elems, st, web) ==
    IF sitemap_elems = <<>> \/ st.raised /= {} THEN st
    ELSE LET child == parse_sitemap(StripText(Head(sitemap_elems).loc), NoFile, web)
         IN ExtendWithChildren(Tail(sitemap_elems),
                               [urls    |-> st.urls \o child.urls,
                                errors  |-> st.errors + child.errors,
                                raised  |-> child.raised],
                               web)

parse_sitemap(source_url, file_content, web) ==
    IF source_url = NoUrl /\ (file_content = NoFile \/ file_content.empty)
    THEN NoneYet
    ELSE LET got == IF source_url /= NoUrl
                    THEN (IF source_url \in DOMAIN web THEN web[source_url]
                          ELSE FetchFails({"ConnectionError", "RequestException"}))
                    ELSE Fetched(file_content)
             root == got.content
         IN IF got.exc /= {} THEN Handle(got.exc, NoneYet)
            ELSE IF ~root.wellformed THEN Handle({"ParseError"}, NoneYet)
            ELSE LET st == ExtendWithChildren(
                               Lookup(root, "sitemap"),
                               [NoneYet EXCEPT !.urls = Texts(Lookup(root, "url"))],
                               web)
                 IN IF st.raised /= {} THEN Handle(st.raised, st)
                    ELSE IF st.urls = <<>>
                    THEN [st EXCEPT !.urls = Texts(EveryLoc(root))]
                    ELSE st

(***************************************************************************)
(* The sitemaps of the model                                               *)
(***************************************************************************)
PageH == Url("http", "h", <<"/">>)
PageX == Url("https", "x", <<"/", "a", "/">>)

\* the addresses of two sitemaps; the first may list the second
Sitemap1 == Url("http", "h", <<"/", "s", "1">>)
Sitemap2 == Url("http", "h", <<"/", "s", "2">>)

UrlEntry(url) == Entry("url", Loc(url, FALSE))
SitemapEntry(url) == Entry("sitemap", Loc(url, FALSE))

\* what the second sitemap address gives
LeafOutcomes ==
    {Fetched(XmlDoc(TRUE, <<Entry("url", Loc(PageX, TRUE))>>)),
     Fetched(XmlDoc(FALSE, <<UrlEntry(PageH), UrlEntry(PageX)>>)),
     Fetched(XmlDoc(TRUE, <<>>)),
     FetchFails({"ConnectionError", "RequestException"})}

\* what the first sitemap address gives
MidOutcomes ==
    {Fetched(XmlDoc(TRUE, <<UrlEntry(PageH)>>)),
     Fetched(XmlDoc(TRUE, <<SitemapEntry(Sitemap2)>>)),
     Fetched(XmlDoc(FALSE, <<SitemapEntry(Sitemap2)>>)),
     Fetched(Malformed),
     FetchFails({"HTTPError", "RequestException"})}

SitemapWebs ==
    {[u \in {Sitemap1, Sitemap2} |-> IF u = Sitemap1 THEN mid ELSE leaf] :
        mid \in MidOutcomes, leaf \in LeafOutcomes}

\* the files a user uploads
SitemapFiles ==
    {XmlDoc(TRUE, <<UrlEntry(PageH), UrlEntry(PageX)>>),
     XmlDoc(FALSE, <<UrlEntry(PageH), UrlEntry(PageX)>>),
     XmlDoc(TRUE, <<SitemapEntry(Sitemap1), SitemapEntry(Sitemap2)>>),
     XmlDoc(FALSE, <<SitemapEntry(Sitemap1), SitemapEntry(Sitemap2)>>),
     XmlDoc(TRUE, <<SitemapEntry(Sitemap2), UrlEntry(PageH)>>),
     XmlDoc(TRUE, <<Entry("url", Loc(NoUrl, FALSE)), Entry("url", Loc(NoUrl, TRUE))>>),
     XmlDoc(TRUE, <<>>),
     Malformed,
     EmptyBytes}

\* the sidebar of sitemap mode: the source chosen, the address typed (empty
\* or not) and the file uploaded (or none)
LaunchWidgets ==
    {[sitemap_source |-> "URL du sitemap", sitemap_url |-> u, sitemap_file |-> NoFile] :
        u \in {NoUrl, Sitemap1, Sitemap2}}
    \cup {[sitemap_source |-> "Upload de fichier", sitemap_url |-> NoUrl, sitemap_file |-> f] :
            f \in SitemapFiles \cup {NoFile}}

(***************************************************************************)
(* crawl_sitemap as the launch block sees it: the list it returns, given   *)
(* what session.get does for each entry taken (src/app.py:449-499)         *)
(***************************************************************************)
\* the outcomes of session.get for a URL: an address without http(s) scheme
\* is refused by requests before any request is made
LaunchOutcomes(url) ==
    IF HttpScheme(url) THEN {Response(200, Html, BodyNone), ConnectionError}
    ELSE {InvalidURL}

crawl_sitemap(url_list, outcome) ==
    LET taken == SliceUrls(url_list, max_pages)
    IN IF StopRequested THEN <<>>
       ELSE [i \in DOMAIN taken |->
               IF outcome[i].exc = {}
               THEN extract_rich_page_data(taken[i], outcome[i], 0)
               ELSE make_error_page(taken[i], ErrorMessage(outcome[i]), 0)]

(***************************************************************************)
(* Specifications                                                          *)
(***************************************************************************)
NormIdle == nUrl = NoUrl /\ nOnce = NoUrl /\ nTwice = NoUrl /\ npc = "off"

\* session state as the script's first run sets it (src/app.py:84-91)
FreshSession == [raw_pages |-> None, seo_issues |-> None, crawl_running |-> FALSE]

LaunchIdle ==
    /\ widgets = [sitemap_source |-> "URL du sitemap", sitemap_url |-> NoUrl,
                  sitemap_file |-> NoFile]
    /\ sitemap_web = <<>>
    /\ sitemap_urls = <<>>
    /\ session_state = FreshSession
    /\ errors = 0
    /\ lpc = "off"

\* the crawl returned before run_audit was reached
AuditWhileCrawling == pc \in {"loop", "done"}

\* raw_pages = crawl_bfs(...) / crawl_sitemap(...) has returned
CrawlReturned == pc = "done"

\* the titles stripped in place by the audit
PagesWithStrippedTitles(pages) ==
    [i \in DOMAIN pages |->
        IF "title" \in DOMAIN pages[i]
        THEN [pages[i] EXCEPT !.title = Strip(@)]
        ELSE pages[i]]

\* run_audit and the checks only read their argument (page["URL"], page.get,
\* img.get, str methods that return new strings): the list and its records
\* come out of the call as they went in
AuditedPages(pages) == pages

\* the launch block after the crawl: seo_issues = run_audit(raw_pages)
Audit ==
    /\ CrawlReturned
    /\ apc = "crawl"
    /\ audit_pages' = AuditedPages(returned)
    /\ seo_issues' = run_audit(returned)
    /\ apc' = "audited"
    /\ UNCHANGED <<crawlVars, normVars, launchVars>>

Init ==
    /\ max_pages \in MinPages..MaxPages
    /\ stop_button \in BOOLEAN
    /\ BfsInit \/ SitemapInit
    /\ idx = 0
    /\ raw_pages = <<>>
    /\ stopped = FALSE
    /\ pc = "loop"
    /\ cur = <<NoUrl, 0>>
    /\ returned = <<>>
    /\ deqLog = <<>>
    /\ fetchLog = <<>>
    /\ parent = {}
    /\ NormIdle
    /\ audit_pages = <<>> /\ seo_issues = <<>> /\ apc = "crawl"
    /\ LaunchIdle

\* the steps of the two crawl loops
CrawlNext ==
    \/ BfsExit
    \/ BfsStop
    \/ BfsDequeue
    \/ BfsFetch
    \/ SitemapExit
    \/ SitemapStop
    \/ SitemapTake
    \/ SitemapFetch

Next ==
    \/ CrawlNext
    \/ Audit

Spec == Init /\ [][Next]_vars

\* the crawl loop is a sequential program: it takes its next step whenever it has one
FairSpec == Spec /\ WF_vars(CrawlNext)

(***************************************************************************)
(* normalize_url applied once and twice to every input                     *)
(***************************************************************************)
NormInit ==
    /\ mode = "norm"
    /\ start_url = NoUrl /\ urls_in = <<>> /\ max_pages = MinPages /\ stop_button = FALSE
    /\ base_netloc = "" /\ visited = {} /\ queue = <<>> /\ urls = <<>> /\ idx = 0
    /\ raw_pages = <<>> /\ stopped = FALSE /\ pc = "idle" /\ cur = <<NoUrl, 0>>
    /\ returned = <<>> /\ deqLog = <<>> /\ fetchLog = <<>> /\ enqLog = <<>> /\ parent = {}
    /\ nUrl \in NormInputs
    /\ nOnce = NoUrl
    /\ nTwice = NoUrl
    /\ npc = "in"
    /\ audit_pages = <<>> /\ seo_issues = <<>> /\ apc = "off"
    /\ LaunchIdle

NormOnce ==
    /\ npc = "in"
    /\ nOnce' = normalize_url(nUrl)
    /\ npc' = "once"
    /\ UNCHANGED <<crawlVars, auditVars, launchVars, nUrl, nTwice>>

NormTwice ==
    /\ npc = "once"
    /\ nTwice' = normalize_url(nOnce)
    /\ npc' = "twice"
    /\ UNCHANGED <<crawlVars, auditVars, launchVars, nUrl, nOnce>>

NormNext == NormOnce \/ NormTwice

NormSpec == NormInit /\ [][NormNext]_vars

(***************************************************************************)
(* run_audit on its own: every list of AuditInputs                         *)
(***************************************************************************)
AuditInit ==
    /\ mode = "audit"
    /\ start_url = NoUrl /\ urls_in = <<>> /\ max_pages = MinPages /\ stop_button = FALSE
    /\ base_netloc = "" /\ visited = {} /\ queue = <<>> /\ urls = <<>> /\ idx = 0
    /\ raw_pages = <<>> /\ stopped = FALSE /\ pc = "idle" /\ cur = <<NoUrl, 0>>
    /\ returned = <<>> /\ deqLog = <<>> /\ fetchLog = <<>> /\ enqLog = <<>> /\ parent = {}
    /\ NormIdle
    /\ audit_pages \in AuditInputs
    /\ seo_issues = <<>>
    /\ apc = "call"
    /\ LaunchIdle

RunAudit ==
    /\ apc = "call"
    /\ seo_issues' = run_audit(audit_pages)
    /\ audit_pages' = AuditedPages(audit_pages)
    /\ apc' = "audited"
    /\ UNCHANGED <<crawlVars, normVars, launchVars>>

AuditNext == RunAudit

AuditSpec == AuditInit /\ [][AuditNext]_vars

(***************************************************************************)
(* The launch block in sitemap mode (src/app.py:727-748), from the click   *)
(* on the launch button to the end of the script run.  raw_pages and       *)
(* seo_issues are the block's locals.                                      *)
(***************************************************************************)
\* session state left by an earlier run.  The launch button is disabled while
\* crawl_running is set (src/app.py:123-126), so the block starts with it unset
EarlierSession ==
    [raw_pages     |-> <<make_error_page(PageH, "Timeout", 0)>>,
     seo_issues    |-> run_audit(<<make_error_page(PageH, "Timeout", 0)>>),
     crawl_running |-> FALSE]

LaunchInit ==
    /\ mode = "launch"
    /\ max_pages \in {MinPages, MaxPages}
    /\ stop_button \in BOOLEAN
    /\ start_url = NoUrl /\ urls_in = <<>>
    /\ base_netloc = "" /\ visited = {} /\ queue = <<>> /\ urls = <<>> /\ idx = 0
    /\ raw_pages = <<>> /\ stopped = FALSE /\ pc = "idle" /\ cur = <<NoUrl, 0>>
    /\ returned = <<>> /\ deqLog = <<>> /\ fetchLog = <<>> /\ enqLog = <<>> /\ parent = {}
    /\ NormIdle
    /\ audit_pages = <<>> /\ seo_issues = <<>> /\ apc = "off"
    /\ widgets \in LaunchWidgets
    /\ sitemap_web \in SitemapWebs
    /\ sitemap_urls = <<>>
    /\ session_state \in {FreshSession, EarlierSession}
    /\ errors = 0
    /\ lpc = "launch"

\* what no step of the launch block writes
LaunchFrame ==
    UNCHANGED <<mode, start_url, urls_in, max_pages, stop_button, base_netloc, visited,
                queue, urls, idx, stopped, pc, cur, returned, deqLog, fetchLog, enqLog,
                parent, normVars, audit_pages, apc, widgets, sitemap_web>>

\* sitemap_urls = [] and the if/elif that calls parse_sitemap
LaunchResolve ==
    /\ mode = "launch" /\ lpc = "launch"
    /\ LET got == IF widgets.sitemap_source = "URL du sitemap"
                     /\ widgets.sitemap_url /= NoUrl
                  THEN parse_sitemap(widgets.sitemap_url, NoFile, sitemap_web)
                  ELSE IF widgets.sitemap_source = "Upload de fichier"
                          /\ widgets.sitemap_file /= NoFile
                  THEN parse_sitemap(NoUrl, widgets.sitemap_file, sitemap_web)
                  ELSE NoneYet
       IN /\ sitemap_urls' = got.urls
          /\ errors' = errors + got.errors
          /\ lpc' = IF got.raised /= {} THEN "crashed" ELSE "resolved"
    /\ UNCHANGED <<raw_pages, seo_issues, session_state>>
    /\ LaunchFrame

\* else: st.error("Aucune URL trouvée dans le sitemap.")
LaunchNothing ==
    /\ mode = "launch" /\ lpc = "resolved"
    /\ sitemap_urls = <<>>
    /\ errors' = errors + 1
    /\ lpc' = "end"
    /\ UNCHANGED <<raw_pages, seo_issues, session_state, sitemap_urls>>
    /\ LaunchFrame

\* if sitemap_urls: st.session_state.crawl_running = True
LaunchStart ==
    /\ mode = "launch" /\ lpc = "resolved"
    /\ sitemap_urls /= <<>>
    /\ session_state' = [session_state EXCEPT !.crawl_running = TRUE]
    /\ lpc' = "crawl"
    /\ UNCHANGED <<raw_pages, seo_issues, sitemap_urls, errors>>
    /\ LaunchFrame

\* raw_pages = crawl_sitemap(...); st.session_state.crawl_running = False
LaunchCrawl ==
    /\ mode = "launch" /\ lpc = "crawl"
    /\ \E outcome \in [DOMAIN sitemap_urls -> UNION {LaunchOutcomes(sitemap_urls[i]) : i \in DOMAIN sitemap_urls}] :
          /\ \A i \in DOMAIN sitemap_urls : outcome[i] \in LaunchOutcomes(sitemap_urls[i])
          /\ raw_pages' = crawl_sitemap(sitemap_urls, outcome)
    /\ session_state' = [session_state EXCEPT !.crawl_running = FALSE]
    /\ lpc' = "crawled"
    /\ UNCHANGED <<seo_issues, sitemap_urls, errors>>
    /\ LaunchFrame

\* seo_issues = run_audit(raw_pages) and the two stores
LaunchAudit ==
    /\ mode = "launch" /\ lpc = "crawled"
    /\ seo_issues' = run_audit(raw_pages)
    /\ session_state' = [session_state EXCEPT !.raw_pages = raw_pages,
                                              !.seo_issues = run_audit(raw_pages)]
    /\ lpc' = "end"
    /\ UNCHANGED <<raw_pages, sitemap_urls, errors>>
    /\ LaunchFrame

LaunchNext ==
    \/ LaunchResolve
    \/ LaunchNothing
    \/ LaunchStart
    \/ LaunchCrawl
    \/ LaunchAudit

LaunchSpec == LaunchInit /\ [][LaunchNext]_vars

(***************************************************************************)
(* Helpers of the properties                                               *)
(***************************************************************************)
Last(seq) == seq[Len(seq)]

Range(seq) == {seq[i] : i \in DOMAIN seq}

\* the URLs a fetched page links to, as the crawl sees them
LinksOf(entry) == Range(extract_internal_links(entry.url, entry.resp, base_netloc))

\* the link graph over the pages fetched so far
Edges == UNION {{<<fetchLog[i].url, l>> : l \in LinksOf(fetchLog[i])} : i \in DOMAIN fetchLog}

\* the number of link hops needed to get from the set reach (k hops away from
\* the seed at most) to u; -1 when u is not reachable
RECURSIVE HopsFrom(_, _, _)
HopsFrom(reach, k, u) ==
    IF u \in reach THEN k
    ELSE LET further == reach \cup {e[2] : e \in {x \in Edges : x[1] \in reach}}
         IN IF further = reach THEN -1 ELSE HopsFrom(further, k + 1, u)

\* least number of link hops from the seed to u
MinHops(u) == HopsFrom({normalize_url(start_url)}, 0, u)

\* every <<url, depth>> the crawl holds: queued, in flight or recorded
Known ==
    Range(queue) \cup (IF pc = "fetch" THEN {cur} ELSE {})
    \cup {<<raw_pages[i].URL, raw_pages[i].depth>> : i \in DOMAIN raw_pages}

NonDecreasing(depths) == \A i, j \in DOMAIN depths : i < j => depths[i] <= depths[j]

(***************************************************************************)
(* C1: at every point of a crawl len(raw_pages) <= max_pages, in both      *)
(* modes, and in recursive mode len(visited) <= max_pages as well.         *)
(***************************************************************************)
C1_CapEnforced ==
    /\ Len(raw_pages) <= max_pages
    /\ mode = "bfs" => Cardinality(visited) <= max_pages

\* the cap is reached on both sides and a link was left out because of it
C1_Witness ==
    /\ mode = "bfs"
    /\ Len(raw_pages) = max_pages
    /\ Cardinality(visited) = max_pages
    /\ \E i \in DOMAIN fetchLog : \E l \in LinksOf(fetchLog[i]) : l \notin visited

(***************************************************************************)
(* C2: within one crawl run, in recursive mode and in sitemap mode, no URL *)
(* is fetched more than once and no two returned records share a url.      *)
(***************************************************************************)
C2_UrlsUnique ==
    /\ \A i, j \in DOMAIN fetchLog : i /= j => fetchLog[i].url /= fetchLog[j].url
    /\ pc = "done" => \A i, j \in DOMAIN returned : i /= j => returned[i].URL /= returned[j].URL

(***************************************************************************)
(* C3: in recursive mode the seed record has depth 0, every URL enqueued   *)
(* for a link found on a page of depth d carries depth d+1, and that depth *)
(* is the least number of link hops from the seed over the fetched pages.  *)
(***************************************************************************)
C3_DepthIsHopCount ==
    mode = "bfs" =>
        /\ \A e \in Known : e[1] = normalize_url(start_url) => e[2] = 0
        /\ \A p \in parent :
            /\ \E i \in DOMAIN fetchLog :
                  fetchLog[i].url = p.from /\ fetchLog[i].depth = p.fromDepth
            /\ \A e \in Known : e[1] = p.url => e[2] = p.fromDepth + 1
        /\ \A e \in Known : e[2] = MinHops(e[1])

\* a page two hops away is recorded, and a link to an already known page was seen
C3_Witness ==
    /\ mode = "bfs"
    /\ \E i \in DOMAIN raw_pages : raw_pages[i].depth = 2
    /\ \E i \in DOMAIN fetchLog : \E l \in LinksOf(fetchLog[i]) :
          l \in visited /\ ~\E p \in parent : p.url = l /\ p.from = fetchLog[i].url

(***************************************************************************)
(* C4: in recursive mode URLs leave the queue in the order they entered    *)
(* it, every depth-d page is dequeued before any page of depth d+1, and    *)
(* raw_pages is non-decreasing in depth at every point of the crawl.       *)
(***************************************************************************)
C4_FifoOrder ==
    mode = "bfs" =>
        /\ deqLog \o queue = enqLog
        /\ NonDecreasing([i \in DOMAIN enqLog |-> (deqLog \o queue)[i][2]])
        /\ NonDecreasing([i \in DOMAIN raw_pages |-> raw_pages[i].depth])

\* two pages of depth 1 were recorded before a page of depth 2
C4_Witness ==
    /\ mode = "bfs"
    /\ Len(raw_pages) = 4
    /\ raw_pages[2].depth = 1 /\ raw_pages[3].depth = 1 /\ raw_pages[4].depth = 2

(***************************************************************************)
(* C5: a recursive crawl always terminates, whatever the links and the     *)
(* fetch failures, and when it has returned the queue is empty, or         *)
(* len(raw_pages) = max_pages, or cancellation was requested.              *)
(***************************************************************************)
C5_Terminates ==
    /\ <>(mode = "bfs" => pc = "done")
    /\ [](mode = "bfs" /\ pc = "done" =>
            queue = <<>> \/ Len(returned) = max_pages \/ stopped)

\* a crawl over pages that link back to the seed, with a failed fetch, has
\* returned at the cap
C5_Witness ==
    /\ mode = "bfs" /\ pc = "done" /\ ~stopped
    /\ Len(returned) = max_pages
    /\ \E i \in DOMAIN fetchLog : fetchLog[i].resp.exc /= {}
    /\ \E i \in DOMAIN fetchLog : normalize_url(start_url) \in LinksOf(fetchLog[i])

(***************************************************************************)
(* C6: when a fetch fails, the crawl appends exactly one error record for  *)
(* that URL, with the error tag as status_code and the URL's depth,        *)
(* enqueues nothing, does not queue the URL again and goes on.             *)
(***************************************************************************)
FetchFailed ==
    /\ pc = "fetch"
    /\ Len(fetchLog') = Len(fetchLog) + 1
    /\ Last(fetchLog').resp.exc /= {}

TagFits(text, resp) ==
    \/ text = "Timeout" /\ "Timeout" \in resp.exc
    \/ text = "Erreur connexion" /\ "ConnectionError" \in resp.exc
    \/ text = "Erreur: " \o resp.msg /\ resp.exc = {"RequestException"}

C6_FailureRecorded ==
    [][FetchFailed =>
        /\ Len(raw_pages') = Len(raw_pages) + 1
        /\ SubSeq(raw_pages', 1, Len(raw_pages)) = raw_pages
        /\ Last(raw_pages').URL = cur[1]
        /\ Last(raw_pages').depth = cur[2]
        /\ ~Last(raw_pages').status_code.isint
        /\ TagFits(Last(raw_pages').status_code.text, Last(fetchLog').resp)
        /\ queue' = queue /\ visited' = visited /\ idx' = idx
        /\ pc' = "loop" /\ ~stopped']_vars

\* a page of depth 1 failed and the crawl fetched another page after it
C6_Witness ==
    \E i \in DOMAIN fetchLog :
        /\ fetchLog[i].resp.exc /= {}
        /\ fetchLog[i].depth = 1
        /\ i < Len(fetchLog)
        /\ ~raw_pages[i].status_code.isint

(***************************************************************************)
(* C7: the stop flag is polled at the top of each iteration: once it is    *)
(* set nothing more is dequeued or fetched, at the top of the loop every   *)
(* URL dequeued so far has its record, and the records are returned.       *)
(***************************************************************************)
RecordedUrls == [i \in DOMAIN raw_pages |-> raw_pages[i].URL]
DequeuedUrls == [i \in DOMAIN deqLog |-> deqLog[i][1]]

C7_Cancellation ==
    [][/\ stop_button => deqLog' = deqLog /\ fetchLog' = fetchLog /\ queue' = queue
       /\ pc' \in {"loop", "done"} => DequeuedUrls' = RecordedUrls'
       /\ stopped' => stop_button /\ pc' = "done" /\ returned' = raw_pages']_vars

\* the flag was set and the crawl has returned what it had
C7_Witness == stop_button /\ stopped /\ pc = "done" /\ returned = raw_pages

(***************************************************************************)
(* C8: a response whose Content-Type does not contain text/html yields a   *)
(* record with an empty title, h1_count 0, the four outlink counts 0 and    *)
(* the response's status code, and adds no URL to the queue or to visited. *)
(***************************************************************************)
NonHtmlFetched ==
    /\ pc = "fetch"
    /\ Len(fetchLog') = Len(fetchLog) + 1
    /\ Last(fetchLog').resp.exc = {}
    /\ \A i \in DOMAIN Last(fetchLog').resp.content_type :
          Last(fetchLog').resp.content_type[i] /= "text/html"

C8_NonHtmlShortCircuit ==
    [][NonHtmlFetched =>
        /\ Last(raw_pages').URL = cur[1]
        /\ Last(raw_pages').title = <<>>
        /\ Last(raw_pages').h1_count = 0
        /\ Last(raw_pages').internal_outlinks = 0
        /\ Last(raw_pages').external_outlinks = 0
        /\ Last(raw_pages').nofollow_outlinks = 0
        /\ Last(raw_pages').empty_anchor_links = 0
        /\ Last(raw_pages').status_code = IntStatus(Last(fetchLog').resp.status_code)
        /\ queue' = queue /\ visited' = visited]_vars

\* a non-HTML response whose body holds a title and links to unknown pages was
\* recorded while the visited set still had room
C8_Witness ==
    /\ mode = "bfs" /\ pc = "loop" /\ fetchLog /= <<>>
    /\ ~IsHtml(Last(fetchLog).resp.content_type)
    /\ Last(fetchLog).resp.exc = {}
    /\ Last(fetchLog).resp.body.titles /= <<>>
    /\ \E i \in DOMAIN Last(fetchLog).resp.body.anchors :
          normalize_url(Last(fetchLog).resp.body.anchors[i].href) \notin visited
    /\ Cardinality(visited) < max_pages
    /\ Last(raw_pages).title = <<>>

(***************************************************************************)
(* C9: sitemap mode, when not cancelled, returns one record per entry of   *)
(* the first min(len(urls), max_pages) entries of the list, in list order, *)
(* each with depth 0, and fetches no URL outside that list.                *)
(***************************************************************************)
Min(a, b) == IF a < b THEN a ELSE b

C9_SitemapLinear ==
    mode = "sitemap" =>
        /\ \A i \in DOMAIN fetchLog : i <= Len(urls_in) /\ fetchLog[i].url = urls_in[i]
        /\ pc = "done" /\ ~stop_button =>
            /\ Len(returned) = Min(Len(urls_in), max_pages)
            /\ \A i \in DOMAIN returned :
                  returned[i].URL = urls_in[i] /\ returned[i].depth = 0

\* a list longer than the cap was crawled to the end, and a page with internal
\* links was among the records
C9_Witness ==
    /\ mode = "sitemap" /\ pc = "done" /\ ~stop_button
    /\ Len(urls_in) > max_pages
    /\ Len(returned) = max_pages
    /\ \E i \in DOMAIN returned : returned[i].internal_outlinks > 0

(***************************************************************************)
(* C10: normalize_url is idempotent:                                       *)
(* normalize_url(normalize_url(u)) = normalize_url(u) for every URL u.     *)
(***************************************************************************)
C10_NormalizeIdempotent == npc = "twice" => nTwice = nOnce

(***************************************************************************)
(* C11 as stated: normalize_url drops the fragment, maps an empty path or  *)
(* the path "/" to "/", removes exactly one trailing slash from every      *)
(* other path that ends in a slash, and keeps scheme, host and query.      *)
(***************************************************************************)
C11_SingleSlashRemoved ==
    npc /= "in" =>
        LET p    == urlparse(nUrl)
            path == IF p.path \in {<<>>, <<"/">>} THEN <<"/">>
                    ELSE IF Last(p.path) = "/" THEN SubSeq(p.path, 1, Len(p.path) - 1)
                    ELSE p.path
        IN /\ Find(nOnce.rest, "#", 1) = 0
           /\ nOnce.scheme = nUrl.scheme /\ nOnce.netloc = nUrl.netloc
           /\ urlparse(nOnce).query = p.query
           /\ nOnce = urlunparse(p.scheme, p.netloc, path, p.params, p.query, <<>>)

\* the part of a URL string between the authority and the first "?" or "#"
BeforeQuery(u) ==
    LET ends == {i \in DOMAIN u.rest : u.rest[i] \in {"?", "#"}}
    IN IF ends = {} THEN u.rest
       ELSE SubSeq(u.rest, 1, (CHOOSE i \in ends : \A j \in ends : i <= j) - 1)

\* the longest prefix of path that does not end in "/"
WithoutTrailingSlashes(path) ==
    LET keep == {i \in 0..Len(path) : i = 0 \/ path[i] /= "/"}
    IN SubSeq(path, 1, CHOOSE i \in keep : \A j \in keep : j <= i)

(***************************************************************************)
(* C11, amended: normalize_url drops the fragment, maps a path that is     *)
(* empty or made of slashes only to "/", removes every trailing slash of   *)
(* any other path, and keeps scheme, host, params and query.               *)
(***************************************************************************)
C11_AllSlashesRemoved ==
    npc /= "in" =>
        LET p    == urlparse(nUrl)
            cut  == WithoutTrailingSlashes(p.path)
            path == IF cut = <<>> THEN <<"/">> ELSE cut
        IN /\ Find(nOnce.rest, "#", 1) = 0
           /\ nOnce.scheme = nUrl.scheme /\ nOnce.netloc = nUrl.netloc
           /\ urlparse(nOnce).query = p.query
           /\ BeforeQuery(nOnce) =
                  IF p.params = <<>> THEN path ELSE path \o <<";">> \o p.params

\* a path with a name and two trailing slashes was normalized to the name
C11_Witness ==
    /\ npc = "once"
    /\ urlparse(nUrl).path = <<"/", "a", "/", "/">>
    /\ nOnce.rest = <<"/", "a">>

(***************************************************************************)
(* C12: run_audit is called only once the crawl call has returned, with    *)
(* the whole list that call returned (cancelled or not); no finding exists *)
(* while the crawl loop is still running, and the crawl takes no step      *)
(* after the audit.                                                        *)
(***************************************************************************)
C12_AuditAfterCrawl ==
    [][/\ apc = "crawl" =>
            /\ seo_issues = <<>>
            /\ (apc' = "audited" =>
                    /\ pc = "done"
                    /\ audit_pages' = returned /\ returned = raw_pages
                    /\ seo_issues' = run_audit(raw_pages))
       /\ apc = "audited" => UNCHANGED vars]_vars

\* an uncancelled crawl of three records or more was audited as a whole
C12_Witness ==
    /\ apc = "audited" /\ pc = "done" /\ ~stopped
    /\ Len(raw_pages) >= 3
    /\ audit_pages = raw_pages
    /\ seo_issues /= <<>>

FindingsFor(category, url) ==
    SelectSeq(seo_issues, LAMBDA f : f.Category = category /\ f.URL = url)

\* the audited records whose URL no other record of the list has: the
\* findings reported for that URL are the record's own
OwnUrl == {i \in DOMAIN audit_pages :
              \A j \in DOMAIN audit_pages : j /= i => audit_pages[j].URL /= audit_pages[i].URL}

OneFinding(found, type, priority) ==
    Len(found) = 1 /\ found[1].Type = type /\ found[1].Priority = priority

\* the Response Codes classification for one record, the 400-499 band
\* giving Issue/High outside the set apart
ResponseCodesRule(page, apart) ==
    LET status == Get(page, "status_code", NoStatus)
        code   == status.code
        found  == FindingsFor("Response Codes", page.URL)
    IN IF ~status.isint
       THEN OneFinding(found, "Issue", "High") /\ found[1].Check = "No Response"
       ELSE /\ code = 404 =>
                 OneFinding(found, "Issue", "High") /\ found[1].Check = "404 Not Found"
            /\ code = 410 => OneFinding(found, "Issue", "Medium")
            /\ 300 <= code /\ code <= 399 => OneFinding(found, "Warning", "Medium")
            /\ 400 <= code /\ code <= 499 /\ code \notin apart =>
                 OneFinding(found, "Issue", "High")
            /\ code >= 500 => OneFinding(found, "Issue", "High")
            /\ code < 300 => found = <<>>

(***************************************************************************)
(* C15 as stated: 404 gives Issue/High "404 Not Found", 410 Issue/Medium,  *)
(* 300-399 Warning/Medium, every status of 400-499 other than 404          *)
(* Issue/High, 500 and above Issue/High, a non-integer status Issue/High   *)
(* "No Response", and an integer below 300 no Response Codes finding.      *)
(***************************************************************************)
C15_ResponseCodesAsStated ==
    apc = "audited" => \A i \in OwnUrl : ResponseCodesRule(audit_pages[i], {404})

(***************************************************************************)
(* C15, amended: the same classification, with Issue/High for every status *)
(* of 400-499 other than 404 and 410 (410 gives Issue/Medium only).        *)
(***************************************************************************)
C15_ResponseCodes ==
    apc = "audited" => \A i \in OwnUrl : ResponseCodesRule(audit_pages[i], {404, 410})

\* a record with status 410 was audited and got its single Issue/Medium finding
C15_Witness ==
    /\ apc = "audited"
    /\ \E i \in OwnUrl :
          /\ Get(audit_pages[i], "status_code", NoStatus) = IntStatus(410)
          /\ OneFinding(FindingsFor("Response Codes", audit_pages[i].URL), "Issue", "Medium")

\* the record {URL: "https://x.test/a", status_code: 404}, no other field
Bare404 == [URL |-> PageA, status_code |-> IntStatus(404)]

NotFound == create_issue("Response Codes", "404 Not Found", "Issue", "High", PageA)

(***************************************************************************)
(* C16 as stated: run_audit on the single record {url "https://x.test/a",  *)
(* status 404}, every other field absent, yields exactly one finding:      *)
(* Response Codes, "404 Not Found", Issue, High.                           *)
(***************************************************************************)
C16_SingleFinding ==
    apc = "audited" /\ audit_pages = <<Bare404>> => seo_issues = <<NotFound>>

(***************************************************************************)
(* C16, amended: run_audit on that record yields exactly one Response      *)
(* Codes finding ("404 Not Found", Issue, High), as the first of eleven    *)
(* findings; the other ten report the absent fields: four missing security *)
(* headers, missing title, meta description, H1, H2 and canonical, and no  *)
(* internal outlink.                                                       *)
(***************************************************************************)
C16_OneResponseCodesFinding ==
    apc = "audited" /\ audit_pages = <<Bare404>> =>
        /\ FindingsFor("Response Codes", PageA) = <<NotFound>>
        /\ seo_issues[1] = NotFound
        /\ [i \in DOMAIN seo_issues |-> <<seo_issues[i].Category, seo_issues[i].Check>>] =
              << <<"Response Codes", "404 Not Found">>,
                 <<"Security", "Missing HSTS Header">>,
                 <<"Security", "Missing Content-Security-Policy Header">>,
                 <<"Security", "Missing X-Content-Type-Options Header">>,
                 <<"Security", "Missing X-Frame-Options Header">>,
                 <<"Page Titles", "Missing">>,
                 <<"Meta Description", "Missing">>,
                 <<"H1", "Missing">>,
                 <<"H2", "Missing">>,
                 <<"Canonicals", "Missing">>,
                 <<"Links", "Pages Without Internal Outlinks">> >>

\* the bare 404 record was audited
C16_Witness ==
    /\ apc = "audited" /\ audit_pages = <<Bare404>>
    /\ Len(seo_issues) = 11

\* the kind of a failed request: a timeout (connect or read), a connection
\* error, any other transport error
FailureKind(outcome) ==
    IF "Timeout" \in outcome.exc THEN "timeout"
    ELSE IF "ConnectionError" \in outcome.exc THEN "connection error"
    ELSE "other"

\* the requests made so far that raised
Failures == {i \in DOMAIN fetchLog : i <= Len(raw_pages) /\ fetchLog[i].resp.exc /= {}}

NoResponse(url) == create_issue("Response Codes", "No Response", "Issue", "High", url)

(***************************************************************************)
(* C17: the record of a failed request holds a status that is not an       *)
(* integer, a tag that differs between the three kinds of failure          *)
(* (timeout, connection error, other transport error); the audit of such   *)
(* a record yields exactly one Response Codes finding, "No Response",      *)
(* Issue, High.                                                            *)
(***************************************************************************)
C17_FailureTags ==
    \A i \in Failures :
        /\ ~raw_pages[i].status_code.isint
        /\ \A j \in Failures :
              FailureKind(fetchLog[i].resp) /= FailureKind(fetchLog[j].resp)
                  => raw_pages[i].status_code /= raw_pages[j].status_code
        /\ SelectSeq(run_audit(<<raw_pages[i]>>), LAMBDA f : f.Category = "Response Codes")
              = <<NoResponse(raw_pages[i].URL)>>
        /\ apc = "audited" /\ i \in OwnUrl =>
              FindingsFor("Response Codes", raw_pages[i].URL)
                  = <<NoResponse(raw_pages[i].URL)>>

\* a crawl with one failure of each kind was audited
C17_Witness ==
    /\ apc = "audited"
    /\ {FailureKind(fetchLog[i].resp) : i \in Failures}
          = {"timeout", "connection error", "other"}
    /\ \E i \in Failures : i \in OwnUrl

\* the "Duplicate" findings of a category, in order
DuplicateFindings(category) ==
    SelectSeq(seo_issues, LAMBDA f : f.Category = category /\ f.Check = "Duplicate")

\* the records i whose value of the field key is non-empty and is also the
\* value of another record of the list
InGroup(key) ==
    {i \in DOMAIN audit_pages :
        /\ Get(audit_pages[i], key, <<>>) /= <<>>
        /\ \E j \in DOMAIN audit_pages :
              j /= i /\ Get(audit_pages[j], key, <<>>) = Get(audit_pages[i], key, <<>>)}

Home == <<"H", "o", "m", "e">>

(***************************************************************************)
(* C18: check_duplicates groups the records by exact equality of title, of *)
(* meta description and of h1, each on its own, ignoring empty values; it  *)
(* reports "Duplicate" once for each record of every group of two or more  *)
(* (Opportunity: Medium for titles and meta descriptions, Low for h1) and  *)
(* never for a record whose value is empty or unique.  Two records titled  *)
(* "Home" at different URLs give exactly two Page Titles findings.         *)
(***************************************************************************)
C18_Duplicates ==
    apc = "audited" =>
        /\ \A rule \in {<<"title", "Page Titles", "Medium">>,
                         <<"meta_description", "Meta Description", "Medium">>,
                         <<"h1", "H1", "Low">>} :
              LET found == DuplicateFindings(rule[2])
              IN /\ \A k \in DOMAIN found :
                       found[k].Type = "Opportunity" /\ found[k].Priority = rule[3]
                 /\ Len(found) = Cardinality(InGroup(rule[1]))
                 /\ \A i \in DOMAIN audit_pages :
                       Cardinality({k \in DOMAIN found : found[k].URL = audit_pages[i].URL})
                         = Cardinality({j \in InGroup(rule[1]) :
                                          audit_pages[j].URL = audit_pages[i].URL})
        /\ (/\ Len(audit_pages) = 2
            /\ audit_pages[1].URL /= audit_pages[2].URL
            /\ \A i \in 1..2 : Get(audit_pages[i], "title", <<>>) = Home)
              => Len(DuplicateFindings("Page Titles")) = 2

\* three records at different URLs titled "Home", "home" and "Home", the h1
\* of one of them "Home" as well: the two "Home" titles were reported, the
\* "home" title and the h1 were not
C18_Witness ==
    /\ apc = "audited"
    /\ Len(audit_pages) = 3
    /\ OwnUrl = {1, 2, 3}
    /\ [i \in 1..3 |-> Get(audit_pages[i], "title", <<>>)] = <<Home, Lower(Home), Home>>
    /\ \E i \in 1..3 : Get(audit_pages[i], "h1", <<>>) = Home
    /\ [k \in DOMAIN DuplicateFindings("Page Titles") |->
            DuplicateFindings("Page Titles")[k].URL] = <<PosUrl(1), PosUrl(3)>>
    /\ DuplicateFindings("H1") = <<>>

\* the per-page Page Titles findings of a record (check_duplicates reports
\* under the same category, with the name "Duplicate")
TitleFindings(page) ==
    SelectSeq(seo_issues, LAMBDA f : /\ f.Category = "Page Titles"
                                     /\ f.URL = page.URL
                                     /\ f.Check /= "Duplicate")

(***************************************************************************)
(* C19: an empty title yields the "Missing" Issue/High finding and no      *)
(* other per-page title finding; a non-empty title yields "Over 60         *)
(* Characters" exactly when it is longer than 60, "Below 30 Characters"    *)
(* exactly when it is shorter than 30, "Multiple" exactly when title_count *)
(* is above 1, and "Same as H1" exactly when the h1 is non-empty and equal *)
(* to the title once both are stripped and lowercased.                     *)
(***************************************************************************)
C19_PageTitles ==
    apc = "audited" =>
        \A i \in OwnUrl :
            LET page   == audit_pages[i]
                title  == Get(page, "title", <<>>)
                h1     == Get(page, "h1", <<>>)
                found  == TitleFindings(page)
                checks == {found[k].Check : k \in DOMAIN found}
            IN IF title = <<>>
               THEN found = <<create_issue("Page Titles", "Missing", "Issue", "High", page.URL)>>
               ELSE /\ Len(found) = Cardinality(checks)
                    /\ checks \subseteq {"Over 60 Characters", "Below 30 Characters",
                                         "Multiple", "Same as H1"}
                    /\ "Over 60 Characters" \in checks <=> Len(title) > 60
                    /\ "Below 30 Characters" \in checks <=> Len(title) < 30
                    /\ "Multiple" \in checks <=> Get(page, "title_count", 0) > 1
                    /\ "Same as H1" \in checks <=>
                          h1 /= <<>> /\ Lower(Strip(title)) = Lower(Strip(h1))

\* a record with two titles, the first of 61 characters and equal to the h1
\* up to case, got the three findings that apply
C19_Witness ==
    /\ apc = "audited"
    /\ Len(audit_pages) = 1
    /\ Len(Get(audit_pages[1], "title", <<>>)) = 61
    /\ Get(audit_pages[1], "h1", <<>>) /= Get(audit_pages[1], "title", <<>>)
    /\ {TitleFindings(audit_pages[1])[k].Check : k \in DOMAIN TitleFindings(audit_pages[1])}
          = {"Multiple", "Over 60 Characters", "Same as H1"}

\* what the Images rule reports for one image: the name of the finding, or
\* "" for none
ImageVerdict(img) ==
    IF ~img.alt.isstr THEN "Missing Alt Attribute"
    ELSE IF Len(img.alt.text) = 0 THEN "Missing Alt Text"
    ELSE IF Len(img.alt.text) > 100 THEN "Alt Text Over 100 Characters"
    ELSE ""

(***************************************************************************)
(* C20: every image of a record gets at most one Images finding: "Missing  *)
(* Alt Attribute" (Issue/Medium) when its alt attribute is absent,         *)
(* "Missing Alt Text" (Issue/Medium) when it is the empty string, "Alt     *)
(* Text Over 100 Characters" (Opportunity/Low) when it is longer than 100, *)
(* and none otherwise; the findings follow the order of the images.        *)
(***************************************************************************)
C20_Images ==
    apc = "audited" =>
        \A i \in OwnUrl :
            LET page    == audit_pages[i]
                flagged == SelectSeq(Get(page, "images", <<>>),
                                     LAMBDA img : ImageVerdict(img) /= "")
                found   == FindingsFor("Images", page.URL)
            IN /\ Len(found) = Len(flagged)
               /\ \A k \in DOMAIN found :
                     /\ found[k].Check = ImageVerdict(flagged[k])
                     /\ <<found[k].Type, found[k].Priority>> =
                           IF found[k].Check = "Alt Text Over 100 Characters"
                           THEN <<"Opportunity", "Low">>
                           ELSE <<"Issue", "Medium">>

\* a record with an image without alt attribute and one with an empty alt
\* got the two different findings, in the order of the images
C20_Witness ==
    /\ apc = "audited"
    /\ Len(audit_pages) = 1
    /\ "images" \in DOMAIN audit_pages[1]
    /\ [k \in DOMAIN audit_pages[1].images |-> audit_pages[1].images[k].alt]
          = <<Str(<<>>), None>>
    /\ [k \in DOMAIN FindingsFor("Images", PageA) |-> FindingsFor("Images", PageA)[k].Check]
          = <<"Missing Alt Text", "Missing Alt Attribute">>

\* the characters an href starts with
HrefText(href) ==
    IF href.scheme = ""
    THEN href.rest
    ELSE (CASE href.scheme = "http"  -> <<"h", "t", "t", "p">>
            [] href.scheme = "https" -> <<"h", "t", "t", "p", "s">>
            [] OTHER                 -> <<href.scheme>>) \o <<":", "/", "/">>

StartsWith(text, prefix) ==
    Len(text) >= Len(prefix) /\ SubSeq(text, 1, Len(prefix)) = prefix

\* the names of the Canonicals findings of a URL, in order
CanonicalChecks(url) ==
    [k \in DOMAIN FindingsFor("Canonicals", url) |-> FindingsFor("Canonicals", url)[k].Check]

C29_RelativeNeverAlone ==
    apc = "audited" =>
        \A i \in OwnUrl :
            LET url    == audit_pages[i].URL
                checks == Range(CanonicalChecks(url))
            IN StartsWith(HrefText(url), <<"h", "t", "t", "p">>)
               /\ "Canonical Is Relative" \in checks
                  => "Canonicalised" \in checks

\* a record at https://x.test/a whose canonical is written "/a": the same
\* page, yet reported as canonicalised and as relative
C29_Witness ==
    /\ apc = "audited"
    /\ Len(audit_pages) = 1
    /\ audit_pages[1].URL = PageA
    /\ Get(audit_pages[1], "canonicals", <<>>) = <<Rel(<<"/", "a">>)>>
    /\ CanonicalChecks(PageA) = <<"Canonicalised", "Canonical Is Relative">>

\* the names of the Security findings of a URL
SecurityChecks(url) ==
    {FindingsFor("Security", url)[k].Check : k \in DOMAIN FindingsFor("Security", url)}

(***************************************************************************)
(* C24: a record of the crawl holds mixed-content addresses only when the  *)
(* scheme of its URL is https, and the audit of the returned list never    *)
(* reports both "HTTP URL" and "Mixed Content" for a URL.                  *)
(***************************************************************************)
C24_MixedContentOnHttpsOnly ==
    /\ \A i \in DOMAIN raw_pages :
          raw_pages[i].mixed_content /= <<>> => urlparse(raw_pages[i].URL).scheme = "https"
    /\ apc = "audited" =>
          \A i \in DOMAIN audit_pages :
              ~ ({"HTTP URL", "Mixed Content"} \subseteq SecurityChecks(audit_pages[i].URL))

\* a sitemap run fetched an https page and an http page that both load an
\* image over http: the first is reported for mixed content, the second for
\* its scheme
C24_Witness ==
    /\ apc = "audited"
    /\ \E i, j \in DOMAIN audit_pages :
          /\ urlparse(audit_pages[i].URL).scheme = "https"
          /\ audit_pages[i].mixed_content = <<Url("http", "h", <<"/", "i">>)>>
          /\ "Mixed Content" \in SecurityChecks(audit_pages[i].URL)
          /\ urlparse(audit_pages[j].URL).scheme = "http"
          /\ audit_pages[j].title = <<"T">>
          /\ audit_pages[j].nofollow_outlinks = 1
          /\ audit_pages[j].mixed_content = <<>>
          /\ "HTTP URL" \in SecurityChecks(audit_pages[j].URL)

\* the names of the Links findings of a URL
LinksChecks(url) ==
    {FindingsFor("Links", url)[k].Check : k \in DOMAIN FindingsFor("Links", url)}

(***************************************************************************)
(* C28: in every record of a crawl, fetched or failed, the nofollow count  *)
(* and the empty-anchor count are at most the count of internal outlinks;  *)
(* so the audit never reports "Pages Without Internal Outlinks" together   *)
(* with "Internal Nofollow Outlinks" or "Internal Outlinks With No Anchor  *)
(* Text" for a record.                                                     *)
(***************************************************************************)
C28_LinkCounts ==
    /\ \A i \in DOMAIN raw_pages :
          /\ raw_pages[i].nofollow_outlinks <= raw_pages[i].internal_outlinks
          /\ raw_pages[i].empty_anchor_links <= raw_pages[i].internal_outlinks
    /\ apc = "audited" =>
          \A i \in OwnUrl :
              "Pages Without Internal Outlinks" \in LinksChecks(audit_pages[i].URL)
              => /\ "Internal Nofollow Outlinks" \notin LinksChecks(audit_pages[i].URL)
                 /\ "Internal Outlinks With No Anchor Text" \notin LinksChecks(audit_pages[i].URL)

\* an audited list with a page whose only internal link is nofollow and has
\* no text (both counts reach the internal count) next to a failed fetch,
\* which has no outlink at all
C28_Witness ==
    /\ apc = "audited"
    /\ \E i, j \in OwnUrl :
          /\ audit_pages[i].internal_outlinks = 1
          /\ audit_pages[i].external_outlinks = 1
          /\ audit_pages[i].nofollow_outlinks = 1
          /\ audit_pages[i].empty_anchor_links = 1
          /\ {"Internal Nofollow Outlinks", "Internal Outlinks With No Anchor Text"}
                \subseteq LinksChecks(audit_pages[i].URL)
          /\ "Pages Without Internal Outlinks" \notin LinksChecks(audit_pages[i].URL)
          /\ ~audit_pages[j].status_code.isint
          /\ LinksChecks(audit_pages[j].URL) = {"Pages Without Internal Outlinks"}

\* the URLs waiting in the queue, in order
QueuedUrls == [i \in DOMAIN queue |-> queue[i][1]]

NoRepeat(seq) == \A i, j \in DOMAIN seq : seq[i] = seq[j] => i = j

(***************************************************************************)
(* C25: whenever a recursive crawl is at its loop test, visited is the     *)
(* union of the URLs of the records of raw_pages and of the URLs in the    *)
(* queue, no URL is both recorded and queued, and neither the queue nor    *)
(* raw_pages holds a URL twice.                                            *)
(***************************************************************************)
C25_VisitedIsResultsPlusQueue ==
    mode = "bfs" /\ pc = "loop" =>
        /\ visited = Range(RecordedUrls) \cup Range(QueuedUrls)
        /\ Range(RecordedUrls) \cap Range(QueuedUrls) = {}
        /\ NoRepeat(QueuedUrls)
        /\ NoRepeat(RecordedUrls)

\* a loop test with two records made and two URLs waiting
C25_Witness ==
    /\ mode = "bfs" /\ pc = "loop"
    /\ Len(raw_pages) = 2
    /\ Len(queue) = 2
    /\ Cardinality(visited) = 4

(***************************************************************************)
(* C26: a recursive crawl that is not cancelled returns, and when it has   *)
(* returned the queue is empty and every URL of visited has its record in  *)
(* the returned list.                                                      *)
(***************************************************************************)
C26_EndsWithEmptyQueue ==
    /\ (mode = "bfs" /\ ~stop_button) ~> (pc = "done" /\ queue = <<>>)
    /\ [](mode = "bfs" /\ pc = "done" /\ ~stopped =>
            /\ queue = <<>>
            /\ visited = {returned[i].URL : i \in DOMAIN returned})

\* a crawl ended by the page cap, having discovered more links than it
\* could take: it returned max_pages records and left nothing in the queue
C26_Witness ==
    /\ mode = "bfs" /\ pc = "done" /\ ~stopped
    /\ queue = <<>>
    /\ Len(returned) = max_pages /\ max_pages >= 2
    /\ \E i \in DOMAIN fetchLog : LinksOf(fetchLog[i]) \ visited /= {}

(***************************************************************************)
(* C27: in a recursive crawl every URL that is enqueued, fetched or        *)
(* recorded is a fixed point of normalize_url and has the host of the      *)
(* normalized start URL.                                                   *)
(***************************************************************************)
C27_NormalizedSameHost ==
    mode = "bfs" =>
        \A u \in Range([i \in DOMAIN enqLog |-> enqLog[i][1]])
                  \cup Range([i \in DOMAIN fetchLog |-> fetchLog[i].url])
                  \cup Range(RecordedUrls) :
            /\ normalize_url(u) = u
            /\ urlparse(u).netloc = urlparse(normalize_url(start_url)).netloc

\* the launch block's call of parse_sitemap fails outright: the address
\* cannot be fetched, or the bytes are not XML
ResolutionFails ==
    IF widgets.sitemap_source = "URL du sitemap"
    THEN /\ widgets.sitemap_url /= NoUrl
         /\ \/ sitemap_web[widgets.sitemap_url].exc /= {}
            \/ ~sitemap_web[widgets.sitemap_url].content.wellformed
    ELSE /\ widgets.sitemap_file /= NoFile
         /\ ~widgets.sitemap_file.empty
         /\ ~widgets.sitemap_file.wellformed

(***************************************************************************)
(* C22: no exception leaves the sitemap resolution; a resolution that      *)
(* fails yields no URL; and when the resolution yielded no URL the launch  *)
(* block ends with one more error message, having started no crawl and no  *)
(* audit and left st.session_state (raw_pages, seo_issues, crawl_running)  *)
(* as it was, crawl_running unset.                                         *)
(***************************************************************************)
C22_NothingToCrawl ==
    /\ [](lpc /= "crashed")
    /\ [][/\ lpc = "launch" =>
               /\ lpc' = "resolved"
               /\ session_state' = session_state
               /\ ResolutionFails => sitemap_urls' = <<>> /\ errors' = errors + 1
          /\ lpc = "resolved" /\ sitemap_urls = <<>> =>
               /\ lpc' = "end"
               /\ errors' = errors + 1
               /\ session_state' = session_state
               /\ ~session_state'.crawl_running
               /\ raw_pages' = raw_pages /\ seo_issues' = seo_issues]_vars

\* a file that is not XML was uploaded after an earlier run: two messages
\* were shown (the parse error, then "no URL found") and the results of the
\* earlier run are still the stored ones
C22_Witness ==
    /\ lpc = "end"
    /\ widgets.sitemap_file = Malformed
    /\ sitemap_urls = <<>>
    /\ errors = 2
    /\ raw_pages = <<>> /\ seo_issues = <<>>
    /\ session_state = EarlierSession

\* sitemap resolution as an ordered list, whatever the namespace: the <loc>
\* texts of the <url> elements, then what each <sitemap> element's address
\* resolves to; an address that cannot be fetched or parsed resolves to
\* nothing
RECURSIVE ResolvedDoc(_, _)
RECURSIVE ResolvedChildren(_, _)

ResolvedChildren(sitemap_elems, web) ==
    IF sitemap_elems = <<>> THEN <<>>
    ELSE LET address == StripText(Head(sitemap_elems).loc)
         IN (IF address \in DOMAIN web /\ web[address].exc = {}
             THEN ResolvedDoc(web[address].content, web) ELSE <<>>)
            \o ResolvedChildren(Tail(sitemap_elems), web)

ResolvedDoc(content, web) ==
    IF content = NoFile \/ ~content.wellformed THEN <<>>
    ELSE Texts(SelectSeq(content.entries, LAMBDA e : e.tag = "url" /\ HasText(e.loc)))
         \o ResolvedChildren(
                SelectSeq(content.entries, LAMBDA e : e.tag = "sitemap" /\ HasText(e.loc)),
                web)

\* the list the launch block's source resolves to
ResolvedSource ==
    IF widgets.sitemap_source = "URL du sitemap"
    THEN (IF widgets.sitemap_url = NoUrl THEN <<>>
          ELSE ResolvedChildren(<<SitemapEntry(widgets.sitemap_url)>>, sitemap_web))
    ELSE ResolvedDoc(widgets.sitemap_file, sitemap_web)

(***************************************************************************)
(* C23: parse_sitemap returns the <loc> values of the <url> entries and,   *)
(* for every <sitemap> entry, the URLs its child sitemap resolves to, for  *)
(* documents with and without the sitemap namespace alike.                 *)
(***************************************************************************)
C23_SitemapResolution ==
    lpc \in {"resolved", "crawl", "crawled", "end"} => sitemap_urls = ResolvedSource

====
